---- MODULE Spec2Model ----
(***************************************************************************)
(* Verification model of the lurker-bot hunter's scanning core:            *)
(*   - RedisSharedQueue        (server/utils/redis_shared_queue.py)        *)
(*   - Workbench / worker loop (server/core/viewerlist_fetcher/)           *)
(*   - ViewerSightingsCache    (.../viewer_sightings_cache.py)             *)
(*   - TwitchSecretsManager    (server/core/twitch_secrets_manager.py)     *)
(*   - ViewerListFetcherChannelListener (.../channel_listener.py)          *)
(* Each component has its own specification over the shared variables:     *)
(* SpecQueue, SpecOps, SpecScan, SpecWorker (and SpecWorkerFair for        *)
(* liveness), SpecCache, SpecShards, SpecSecrets, SpecListener and         *)
(* SpecFrames.                                                             *)
(* A specification leaves the variables of the other components at their   *)
(* initial value.                                                          *)
(***************************************************************************)
EXTENDS Integers, Sequences, FiniteSets, TLC

VARIABLES
    redis,        \* the Redis lists: key -> sequence of strings
    handles,      \* the RedisSharedQueue objects: handle id -> [key, size_limit]
    locks,        \* handle id -> holder of _asyncio_lock / _multiprocess_lock
    qpc,          \* SpecQueue: task -> position inside enqueue / dequeue
    qdata,        \* SpecQueue: task -> the string `data` built by enqueue
    qret,         \* SpecQueue: task -> outcome of its last finished call;
                  \* SpecOps: the last finished operation
    got,          \* SpecQueue: consumer -> the non-empty results dequeue returned to it
    accepted,     \* SpecQueue: payloads whose enqueue returned normally, in order
    enqCalls,     \* SpecQueue: number of enqueue calls started;
                  \* SpecOps: number of operations called
    active,       \* SpecQueue: the tasks that use the queue in this run
    now,          \* the clock (perf_counter / datetime.now), in whole seconds
    last_update_timemarker,  \* Workbench._last_update_timemarker
    refills,      \* SpecScan: the start times of the update() calls that moved an item
    updStart,     \* SpecScan: what the last update() allowed to run found at its start
    upd,          \* SpecScan: the update() call in progress and its locals
    wpc,          \* SpecScan: worker -> position inside processing_loop
    wtarget,      \* SpecScan: worker -> target_channel
    working,      \* worker -> ViewerListFetcher._working
    stopAsked,    \* the workers set_state(False) was called on
    produced,     \* SpecScan: number of channels offered to the pending queue
    joins,        \* SpecScan: the times at which a worker was handed an item
    benchOrder,   \* SpecScan: the items accepted by the workbench queue, in order
    observed,     \* SpecScan: login -> number of fetch results that listed it
    viewer_sightings,  \* the ViewerSighting rows written, as login names
    cache,        \* the sightings cache: login -> the Redis hash under its key
    cpc,          \* SpecCache: task -> the cache call it is in, with its arguments
    cret,         \* SpecCache: task -> what its last finished call returned
    incRets,      \* SpecCache: login -> the values increment_times_seen returned
    onlyIncr,     \* SpecCache: login -> no other call has written its entry
    cleared,      \* SpecCache: task -> the logins that had an entry when its
                  \* last completed clear_cache() was called
    cacheCalls,   \* SpecCache: number of cache calls started
    shard_down,   \* the indices in _shards of the connections whose calls raise
    secrets_store,    \* TwitchSecretsManager._secrets_store
    expiration_time,  \* TwitchSecretsManager.expiration_time
    secrets_table,    \* the rows of the secrets table
    secrets_lock,     \* holder of _asyncio_lock (and, inside it, _multiprocess_lock)
    spc,          \* SpecSecrets: task -> position inside a manager operation
    sret,         \* SpecSecrets: task -> outcome of its last finished call
    refreshCalls, \* SpecSecrets: number of requests sent to the refresh endpoint
    storedExpiry, \* SpecSecrets: the expiry computed when the held credential was stored
    lastIngest,   \* SpecSecrets: the last valid payload handed to the manager
    secCalls,     \* SpecSecrets: number of manager calls started
    user_lists,   \* ViewerListFetcherChannelListener._user_lists: key -> ViewerListFetchData;
                  \* SpecWorker: worker -> the _user_lists of its listener
    lbatch,       \* SpecListener: the channels list the fetch call was given
    ltask,        \* SpecListener: per channel of the batch, its _process_channel_task
    lcall,        \* SpecListener: the fetch_viewer_list_for_channels call
    ljoined,      \* SpecListener: the channels the IRC connection has joined
    lparts,       \* SpecListener: the channels a PART was sent for, in order
    lframes,      \* SpecListener: number of frames received
    lframe,       \* SpecFrames: the frame event_raw_data was called with
    lbefore       \* SpecFrames: _user_lists before that call

storevars == <<redis, handles, locks>>
qvars == <<qpc, qdata, qret, got, accepted, enqCalls, active>>
scanvars == <<last_update_timemarker, refills, updStart, upd, wpc, wtarget,
              working, stopAsked,
              produced, joins, benchOrder, observed, viewer_sightings>>
cachevars == <<cpc, cret, incRets, onlyIncr, cleared, cacheCalls, shard_down>>
secvars == <<secrets_store, expiration_time, secrets_table, secrets_lock, spc,
             sret, refreshCalls, storedExpiry, lastIngest, secCalls>>
lvars == <<user_lists, lbatch, ltask, lcall, ljoined, lparts, lframes>>
fvars == <<lframe, lbefore>>
vars == <<storevars, qvars, scanvars, now, cache, cachevars, secvars, lvars, fvars>>
\* what the actions of one component leave alone of the others
qother == <<scanvars, now, cache, cachevars, secvars, lvars, fvars>>
sother == <<qvars, cache, cachevars, secvars, lvars, fvars>>
cother == <<storevars, qvars, scanvars, secvars, lvars, fvars>>
mother == <<storevars, qvars, scanvars, cache, cachevars, lvars, fvars>>
lother == <<storevars, qvars, scanvars, cache, cachevars, secvars, fvars>>
fother == <<storevars, qvars, scanvars, cache, cachevars, secvars>>

(***************************************************************************)
(* Bounds of the model.                                                    *)
(***************************************************************************)
MaxEnq == 3
MaxTime == 4
MaxItems == 3
MaxCacheCalls == 3
MaxCacheTime == 1
MaxSecCalls == 4
MaxSecTime == 2
MaxBatch == 2
MaxFrames == 1
MaxLines == 2
MaxListenTime == 3
MaxFrameLines == 3
MaxOps == 4
MaxShardCalls == 4

(***************************************************************************)
(* Python values that reach the queue code.                                *)
(***************************************************************************)
PyNone == [t |-> "none"]
PyInt(n) == [t |-> "int", n |-> n]
PyStr(s) == [t |-> "str", s |-> s]
PyDict(d) == [t |-> "dict", d |-> d]

\* str(x) as used by the f-strings and by enqueue's str(item)
PyToStr(x) ==
    CASE x.t = "none" -> "None"
      [] x.t = "int" -> ToString(x.n)
      [] x.t = "str" -> x.s

RECURSIVE JsonPairs(_)
JsonPairs(d) ==
    IF d = <<>> THEN ""
    ELSE "\"" \o d[1][1] \o "\": \"" \o d[1][2] \o "\""
         \o (IF Len(d) > 1 THEN ", " ELSE "") \o JsonPairs(Tail(d))

\* json.dumps of a dict[str, str], given as its sequence of <<key, value>> pairs
JsonDumps(d) == "{" \o JsonPairs(d) \o "}"

\* The dict payloads and the JSON scalars the model feeds to the queue.
DictUniverse == { <<>>, << <<"user_login", "bob">> >> }
DigitUniverse == 0..9

\* json.loads(raw) guarded by `except json.JSONDecodeError: json_data = {}`
JsonLoads(raw) ==
    IF \E d \in DictUniverse : JsonDumps(d) = raw
    THEN PyDict(CHOOSE d \in DictUniverse : JsonDumps(d) = raw)
    ELSE IF \E n \in DigitUniverse : ToString(n) = raw
    THEN PyInt(CHOOSE n \in DigitUniverse : ToString(n) = raw)
    ELSE PyDict(<<>>)

(***************************************************************************)
(* RedisSharedQueue.                                                       *)
(***************************************************************************)
\* RedisSharedQueue.__init__(name, namespace, size_limit): the fields the
\* methods read.  The key is an f-string, so any value is formatted with str().
RedisSharedQueue(name, namespace, size_limit) ==
    [key |-> PyToStr(namespace) \o ":" \o name, size_limit |-> size_limit]

\* size_limit_script with the comparison slipped to <=.
size_limit_script_offbyone(list, size_limit, item) ==
    IF size_limit.t # "int"
    THEN [list |-> list, ret |-> "script_error"]
    ELSE IF Len(list) <= size_limit.n
    THEN [list |-> Append(list, item), ret |-> "1"]
    ELSE [list |-> list, ret |-> "0"]

\* The Lua script registered as _enqueue_with_limit.  The limit is pasted
\* into the script text: a number compares, anything else is a Lua name that
\* does not exist and aborts the script.
size_limit_script(list, size_limit, item) ==
    IF size_limit.t # "int"
    THEN [list |-> list, ret |-> "script_error"]
    ELSE IF Len(list) < size_limit.n
    THEN [list |-> Append(list, item), ret |-> "1"]
    ELSE [list |-> list, ret |-> "0"]

\* The Lua script registered as _enqueue_without_limit.
no_size_limit_script(list, item) ==
    [list |-> Append(list, item), ret |-> "1"]

\* self._enqueue as chosen at the end of __init__
EnqueueScriptOf(h, list, item) ==
    IF h.size_limit.t # "none"
    THEN size_limit_script(list, h.size_limit, item)
    ELSE no_size_limit_script(list, item)

\* enqueue(): item -> data
EnqueueData(item) ==
    IF item.t = "dict" THEN JsonDumps(item.d) ELSE PyToStr(item)

\* enqueue() that pushes first and tests the length afterwards.
EnqueueOutcome_pushfirst(h, list, data) ==
    LET pushed == Append(list, data) IN
    [list |-> pushed,
     raised |-> IF h.size_limit.t = "int" /\ Len(pushed) > h.size_limit.n
                THEN "RedisSharedQueueFull" ELSE "none"]

\* enqueue() once both locks are held: the script call and what is raised.
EnqueueOutcome(h, list, data) ==
    LET r == EnqueueScriptOf(h, list, data) IN
    [list |-> r.list,
     raised |-> CASE r.ret = "1" -> "none"
                  [] r.ret = "0" -> IF h.size_limit.t # "none"
                                    THEN "RedisSharedQueueFull"
                                    ELSE "RedisSharedQueueError"
                  [] OTHER -> "RedisSharedQueueError"]

\* queue_size(): LLEN
queue_size(list) == Len(list)

\* dequeue_script reading the head without removing it (LINDEX for BLPOP).
dequeue_script_peek(list) ==
    IF list = <<>>
    THEN [list |-> list, item |-> PyNone]
    ELSE [list |-> list, item |-> PyStr(Head(list))]

\* The pop script with the removal moved after the result is built.
DequeueOutcome_tailpop(list) ==
    IF list = <<>>
    THEN [list |-> list, ret |-> <<PyNone, PyDict(<<>>)>>]
    ELSE [list |-> SubSeq(list, 1, Len(list) - 1),
          ret |-> <<PyStr(list[Len(list)]), JsonLoads(list[Len(list)])>>]

\* The Lua script registered as _dequeue_script: BLPOP inside a script does
\* not block; it pops the head or answers nil.
dequeue_script(list) ==
    IF list = <<>>
    THEN [list |-> list, item |-> PyNone]
    ELSE [list |-> Tail(list), item |-> PyStr(Head(list))]

\* The empty result (None, {})
EmptyResult == <<PyNone, PyDict(<<>>)>>

\* dequeue() after the size check: the script call and the returned tuple.
DequeueOutcome(list) ==
    LET r == dequeue_script(list) IN
    [list |-> r.list,
     ret |-> IF r.item.t = "none"
             THEN EmptyResult
             ELSE <<r.item, JsonLoads(r.item.s)>>]

(***************************************************************************)
(* SpecQueue: producers and consumers on one queue.  p1 and p2 are tasks   *)
(* of one process sharing the handle h1; p3, c1 and c2 are other processes *)
(* with a handle of their own, built from the same details.                *)
(***************************************************************************)
QLimit == 2
QProducers == {"p1", "p2", "p3"}
QConsumers == {"c1", "c2"}
QTasks == QProducers \cup QConsumers
QHandleOf(t) ==
    CASE t \in {"p1", "p2"} -> "h1"
      [] t = "p3" -> "h2"
      [] t = "c1" -> "h3"
      [] t = "c2" -> "h4"
QHandles == {"h1", "h2", "h3", "h4"}
QPayloads == { PyStr("item1"), PyStr("7"), PyDict(<< <<"user_login", "bob">> >>) }
QKey == RedisSharedQueue("testqueue", PyStr("queue"), PyNone).key

QInit ==
    /\ redis = [k \in {QKey} |-> <<>>]
    /\ \E lim \in {PyNone, PyInt(QLimit)} :
          handles = [h \in QHandles |->
                        RedisSharedQueue("testqueue", PyStr("queue"), lim)]
    /\ locks = [h \in QHandles |-> "free"]
    /\ qpc = [t \in QTasks |-> "idle"]
    /\ qdata = [t \in QTasks |-> PyNone]
    /\ qret = [t \in QTasks |-> "none"]
    /\ got = [t \in QConsumers |-> <<>>]
    /\ accepted = <<>>
    /\ enqCalls = 0
    /\ active \in {QTasks, {"p1", "c1"}}

\* enqueue(item) up to the script call: `async with self._asyncio_lock`,
\* `with self._multiprocess_lock`, and the conversion of item to data.
QEnqueueLock(t, item) ==
    /\ t \in active
    /\ qpc[t] = "idle"
    /\ enqCalls < MaxEnq
    /\ locks[QHandleOf(t)] = "free"
    /\ locks' = [locks EXCEPT ![QHandleOf(t)] = t]
    /\ qdata' = [qdata EXCEPT ![t] = [item |-> item, data |-> EnqueueData(item)]]
    /\ qpc' = [qpc EXCEPT ![t] = "enqueue_script"]
    /\ enqCalls' = enqCalls + 1
    /\ UNCHANGED <<qother, redis, handles, qret, got, accepted, active>>

\* enqueue(item): the script runs in Redis, the result is inspected, the
\* locks are released and the call returns or raises.
QEnqueueScript(t) ==
    /\ qpc[t] = "enqueue_script"
    /\ LET h == handles[QHandleOf(t)]
           o == EnqueueOutcome(h, redis[h.key], qdata[t].data)
       IN /\ redis' = [redis EXCEPT ![h.key] = o.list]
          /\ qret' = [qret EXCEPT ![t] = o.raised]
          /\ accepted' = IF o.raised = "none"
                         THEN Append(accepted, qdata[t].item)
                         ELSE accepted
    /\ locks' = [locks EXCEPT ![QHandleOf(t)] = "free"]
    /\ qpc' = [qpc EXCEPT ![t] = "idle"]
    /\ qdata' = [qdata EXCEPT ![t] = PyNone]
    /\ UNCHANGED <<qother, handles, got, enqCalls, active>>

\* dequeue(): `if (await self.queue_size()) == 0: return (None, {})`
QDequeueSize(t) ==
    /\ t \in active
    /\ qpc[t] = "idle"
    /\ LET h == handles[QHandleOf(t)] IN
       IF queue_size(redis[h.key]) = 0
       THEN /\ qret' = [qret EXCEPT ![t] = "empty_at_size_check"]
            /\ qpc' = qpc
       ELSE /\ qpc' = [qpc EXCEPT ![t] = "dequeue_script"]
            /\ qret' = qret
    /\ UNCHANGED <<qother, redis, handles, locks, qdata, got, accepted, enqCalls, active>>

\* dequeue(): the pop script and the construction of the returned tuple.
QDequeueScript(t) ==
    /\ qpc[t] = "dequeue_script"
    /\ LET h == handles[QHandleOf(t)]
           o == DequeueOutcome(redis[h.key])
       IN /\ redis' = [redis EXCEPT ![h.key] = o.list]
          /\ IF o.ret = EmptyResult
             THEN /\ qret' = [qret EXCEPT ![t] = "empty_at_pop"]
                  /\ got' = got
             ELSE /\ qret' = [qret EXCEPT ![t] = "item"]
                  /\ got' = [got EXCEPT ![t] = Append(got[t], o.ret)]
    /\ qpc' = [qpc EXCEPT ![t] = "idle"]
    /\ UNCHANGED <<qother, handles, locks, qdata, accepted, enqCalls, active>>

QNext ==
    \/ \E t \in QProducers, item \in QPayloads : QEnqueueLock(t, item)
    \/ \E t \in QProducers : QEnqueueScript(t)
    \/ \E t \in QConsumers : QDequeueSize(t)
    \/ \E t \in QConsumers : QDequeueScript(t)

(***************************************************************************)
(* SpecOps: one task calling every operation of RedisSharedQueue on three  *)
(* queues of one Redis, with a store whose calls may raise RedisError.     *)
(* One of the keys is another key followed by one more character.          *)
(***************************************************************************)
OpsNames == {"testqueue", "testqueue2", "limitedqueue"}
OpsQueue(n) ==
    RedisSharedQueue(n, PyStr("queue"),
                     IF n = "limitedqueue" THEN PyInt(1) ELSE PyNone)
OpsKeys == { OpsQueue(n).key : n \in OpsNames }
\* the strings by which one key of the model can continue another
KeyTails == {"", "2"}

\* Redis glob match of `key .. '*'`: every key that starts with key
MatchesKeyStar(key, k) == \E tail \in KeyTails : key \o tail = k

\* clear_script: KEYS key..'*' and DEL of what it found; a deleted list is
\* an empty one to LLEN and to the other scripts.
queue_clear_script(db, key) ==
    [k \in DOMAIN db |-> IF MatchesKeyStar(key, k) THEN <<>> ELSE db[k]]

\* what a finished operation left behind: its name and queue, whether a
\* call to the store raised, what the method raised, and the store before
OpsDone(op, n, failed, raised, before) ==
    [op |-> op, name |-> n, failed |-> failed, raised |-> raised, before |-> before]

OpsInit ==
    /\ redis = [k \in OpsKeys |-> <<>>]
    /\ handles = [n \in OpsNames |-> OpsQueue(n)]
    /\ locks = [n \in OpsNames |-> "free"]
    /\ qret = [op |-> "none"]
    /\ enqCalls = 0
    /\ qpc = <<>> /\ qdata = <<>> /\ got = <<>> /\ accepted = <<>> /\ active = {}

OpsFinish(rec) ==
    /\ qret' = rec
    /\ enqCalls' = enqCalls + 1
    /\ UNCHANGED <<qother, handles, locks, qpc, qdata, got, accepted, active>>

\* enqueue(item): the script call raising a RedisError is caught and
\* re-raised as RedisSharedQueueError
OpsEnqueue(n, item, fail) ==
    /\ enqCalls < MaxOps
    /\ LET h == handles[n]
           o == EnqueueOutcome(h, redis[h.key], EnqueueData(item))
       IN IF fail
          THEN /\ redis' = redis
               /\ OpsFinish(OpsDone("enqueue", n, TRUE, "RedisSharedQueueError", redis))
          ELSE /\ redis' = [redis EXCEPT ![h.key] = o.list]
               /\ OpsFinish(OpsDone("enqueue", n, FALSE, o.raised, redis))

\* queue_size(): llen inside `except Exception`
OpsQueueSize(n, fail) ==
    /\ enqCalls < MaxOps
    /\ redis' = redis
    /\ OpsFinish(OpsDone("queue_size", n, fail,
                         IF fail THEN "RedisSharedQueueError" ELSE "none", redis))

\* empty(): queue_size() == 0
OpsEmpty(n, fail) ==
    /\ enqCalls < MaxOps
    /\ redis' = redis
    /\ OpsFinish(OpsDone("empty", n, fail,
                         IF fail THEN "RedisSharedQueueError" ELSE "none", redis))

\* remaining_space(): no call to the store when there is no limit
OpsRemainingSpace(n, fail) ==
    /\ enqCalls < MaxOps
    /\ fail => handles[n].size_limit.t # "none"
    /\ redis' = redis
    /\ OpsFinish(OpsDone("remaining_space", n, fail,
                         IF fail THEN "RedisSharedQueueError" ELSE "none", redis))

\* dequeue(): queue_size(), then the pop script inside the handler of the
\* Redis errors; fail names the store call that raises
OpsDequeue(n, fail) ==
    /\ enqCalls < MaxOps
    /\ LET h == handles[n]
           o == DequeueOutcome(redis[h.key])
       IN CASE fail = "size" ->
                 /\ redis' = redis
                 /\ OpsFinish(OpsDone("dequeue", n, TRUE, "RedisSharedQueueError", redis))
            [] fail = "pop" ->
                 /\ queue_size(redis[h.key]) # 0
                 /\ redis' = redis
                 /\ OpsFinish(OpsDone("dequeue", n, TRUE, "RedisSharedQueueError", redis))
            [] OTHER ->
                 /\ redis' = IF queue_size(redis[h.key]) = 0 THEN redis
                             ELSE [redis EXCEPT ![h.key] = o.list]
                 /\ OpsFinish(OpsDone("dequeue", n, FALSE, "none", redis))

\* clear(): `await self._clear_script(keys=[self.key])` with no handler
\* around it
OpsClear(n, fail) ==
    /\ enqCalls < MaxOps
    /\ IF fail
       THEN /\ redis' = redis
            /\ OpsFinish(OpsDone("clear", n, TRUE, "RedisError", redis))
       ELSE /\ redis' = queue_clear_script(redis, handles[n].key)
            /\ OpsFinish(OpsDone("clear", n, FALSE, "none", redis))

OpsNext ==
    \/ \E n \in OpsNames, item \in QPayloads, fail \in BOOLEAN : OpsEnqueue(n, item, fail)
    \/ \E n \in OpsNames, fail \in BOOLEAN : OpsQueueSize(n, fail)
    \/ \E n \in OpsNames, fail \in BOOLEAN : OpsEmpty(n, fail)
    \/ \E n \in OpsNames, fail \in BOOLEAN : OpsRemainingSpace(n, fail)
    \/ \E n \in OpsNames, fail \in {"no", "size", "pop"} : OpsDequeue(n, fail)
    \/ \E n \in OpsNames, fail \in BOOLEAN : OpsClear(n, fail)

(***************************************************************************)
(* Workbench, the pending queue's producer and the ViewerListFetcher       *)
(* workers.                                                                *)
(***************************************************************************)
TWITCH_CHANNEL_JOIN_LIMIT_COUNT == 2
TWITCH_CHANNEL_JOIN_LIMIT_PER_SECONDS == 2
NumWorkers == 2
Workers == 1..NumWorkers
Logins == {"alice", "bob"}
\* the name lists a fetch may come back with
NameSets == { {}, {"alice"}, {"alice", "bob"} }
Chan(i) == "chan" \o ToString(i)
ChanIndex(c) == CHOOSE i \in 1..(MaxItems + 1) : Chan(i) = c

\* Workbench.__init__: the details of the two queues
WorkbenchDetails ==
    [name |-> "workbench",
     size_limit |-> PyInt(TWITCH_CHANNEL_JOIN_LIMIT_COUNT),
     namespace |-> PyStr("queue")]
PendingDetails ==
    [name |-> "pending", size_limit |-> PyNone, namespace |-> PyStr("queue")]

\* get_redis_shared_queue(details): the constructor is called with the
\* positional arguments (name, size_limit, namespace).
get_redis_shared_queue(details) ==
    RedisSharedQueue(details.name, details.size_limit, details.namespace)

\* The queues as the workbench fixture builds them, with keyword arguments.
FixtureWorkbenchQueue ==
    RedisSharedQueue("test_workbenchqueue", PyStr("queue"),
                     PyInt(TWITCH_CHANNEL_JOIN_LIMIT_COUNT))
FixturePendingQueue ==
    RedisSharedQueue("test_pendingqueue", PyStr("queue"), PyNone)

ScanHandles == {"workbench", "pending", "producer", "worker"}
ScanKeys == { get_redis_shared_queue(WorkbenchDetails).key,
              get_redis_shared_queue(PendingDetails).key,
              FixtureWorkbenchQueue.key, FixturePendingQueue.key }

\* remaining_space()
remaining_space(h, list) ==
    CASE h.size_limit.t = "none" -> PyNone
      [] h.size_limit.t = "int" -> PyInt(h.size_limit.n - queue_size(list))
      [] OTHER -> [t |-> "TypeError"]

\* update() not running; ret is what the last call returned or raised
UpdIdle(ret) ==
    [pc |-> "idle", pending_queue_size |-> 0, space_on_workbench |-> 0,
     tasks |-> <<>>, results |-> <<>>, valid_items |-> <<>>,
     raised |-> "none", ret |-> ret]

\* A Redis hash: the fields it has and their values; a key with no field
\* does not exist.
CacheAbsent ==
    [has |-> {}, times_seen |-> 0, enriched |-> "", aggregated |-> "",
     timestamp |-> ""]

ScanInit ==
    /\ \/ handles = [h \in ScanHandles |->
                        IF h \in {"workbench", "worker"}
                        THEN get_redis_shared_queue(WorkbenchDetails)
                        ELSE get_redis_shared_queue(PendingDetails)]
       \/ handles = [h \in ScanHandles |->
                        IF h \in {"workbench", "worker"}
                        THEN FixtureWorkbenchQueue
                        ELSE FixturePendingQueue]
    /\ redis = [k \in ScanKeys |-> <<>>]
    /\ locks = [h \in ScanHandles |-> "free"]
    /\ now = 0
    /\ last_update_timemarker = 0
    /\ refills = <<>>
    /\ updStart = PyNone
    /\ upd = UpdIdle("none")
    /\ wpc = [w \in Workers |-> "loop"]
    /\ wtarget = [w \in Workers |-> PyNone]
    /\ working = [w \in Workers |-> TRUE]
    /\ stopAsked = {}
    /\ produced = 0
    /\ joins = <<>>
    /\ benchOrder = <<>>
    /\ observed = [l \in Logins |-> 0]
    /\ viewer_sightings = <<>>
    /\ cache = [l \in Logins |-> CacheAbsent]

PendingList == redis[handles["pending"].key]
WorkbenchList == redis[handles["workbench"].key]

\* time passes
Tick ==
    /\ now < MaxTime
    /\ now' = now + 1
    /\ UNCHANGED <<storevars, qvars, scanvars, cache, cachevars, secvars, lvars, fvars>>

\* The stream producer puts the next channel into the pending queue.
PendingEnqueue ==
    /\ produced < MaxItems
    /\ LET h == handles["producer"]
           o == EnqueueOutcome(h, redis[h.key], EnqueueData(PyStr(Chan(produced + 1))))
       IN redis' = [redis EXCEPT ![h.key] = o.list]
    /\ produced' = produced + 1
    /\ UNCHANGED <<sother, stopAsked, working, handles, locks, now, last_update_timemarker, upd, wpc,
                   wtarget, joins, benchOrder, observed, viewer_sightings, refills, updStart>>

\* update(): the rate limit test at its top.
UpdateCall ==
    /\ upd.pc = "idle"
    /\ IF TWITCH_CHANNEL_JOIN_LIMIT_PER_SECONDS + last_update_timemarker >= now
       THEN /\ upd' = UpdIdle("False")
            /\ UNCHANGED updStart
       ELSE /\ upd' = [UpdIdle("none") EXCEPT !.pc = "queue_size"]
            /\ updStart' = [t |-> "start", at |-> now,
                            backlog |-> Len(PendingList),
                            held |-> Len(WorkbenchList),
                            produced |-> produced, joins |-> Len(joins),
                            bench |-> Len(benchOrder)]
    /\ UNCHANGED <<sother, stopAsked, working, storevars, now, last_update_timemarker, wpc, wtarget,
                   produced, joins, benchOrder, observed, viewer_sightings, refills>>

\* update(): pending_queue_size = await self._pending_queue.queue_size()
UpdatePendingSize ==
    /\ upd.pc = "queue_size"
    /\ upd' = [upd EXCEPT !.pending_queue_size = queue_size(PendingList),
                          !.pc = "remaining_space"]
    /\ UNCHANGED <<sother, stopAsked, working, storevars, now, last_update_timemarker, wpc, wtarget,
                   produced, joins, benchOrder, observed, viewer_sightings, refills, updStart>>

\* update(): space_on_workbench, then the dequeue tasks are created; with
\* nothing pending, or no task to run, the call returns True.
UpdateRemainingSpace ==
    /\ upd.pc = "remaining_space"
    /\ LET sp == remaining_space(handles["workbench"], WorkbenchList) IN
       upd' = IF sp.t = "TypeError" THEN UpdIdle("TypeError")
              ELSE IF upd.pending_queue_size = 0 THEN UpdIdle("True")
              ELSE IF sp.t = "none" THEN UpdIdle("TypeError")
              ELSE IF sp.n <= 0 THEN UpdIdle("True")
              ELSE [upd EXCEPT !.pc = "gather_dequeue",
                               !.space_on_workbench = sp.n,
                               !.tasks = [i \in 1..sp.n |-> "queue_size"],
                               !.results = [i \in 1..sp.n |-> EmptyResult]]
    /\ updStart' = IF upd'.pc = "idle" THEN PyNone ELSE updStart
    /\ UNCHANGED <<sother, stopAsked, working, storevars, now, last_update_timemarker, wpc, wtarget,
                   produced, joins, benchOrder, observed, viewer_sightings, refills>>

\* update(): dequeue task i of the gather, its size check
UpdateDequeueSize(i) ==
    /\ upd.pc = "gather_dequeue"
    /\ i \in DOMAIN upd.tasks
    /\ upd.tasks[i] = "queue_size"
    /\ upd' = IF queue_size(PendingList) = 0
              THEN [upd EXCEPT !.tasks[i] = "done", !.results[i] = EmptyResult]
              ELSE [upd EXCEPT !.tasks[i] = "dequeue_script"]
    /\ UNCHANGED <<sother, stopAsked, working, storevars, now, last_update_timemarker, wpc, wtarget,
                   produced, joins, benchOrder, observed, viewer_sightings, refills, updStart>>

\* update(): dequeue task i of the gather, its pop
UpdateDequeueScript(i) ==
    /\ upd.pc = "gather_dequeue"
    /\ i \in DOMAIN upd.tasks
    /\ upd.tasks[i] = "dequeue_script"
    /\ LET o == DequeueOutcome(PendingList) IN
       /\ redis' = [redis EXCEPT ![handles["pending"].key] = o.list]
       /\ upd' = [upd EXCEPT !.tasks[i] = "done", !.results[i] = o.ret]
    /\ UNCHANGED <<sother, stopAsked, working, handles, locks, now, last_update_timemarker, wpc, wtarget,
                   produced, joins, benchOrder, observed, viewer_sightings, refills, updStart>>

\* valid_items = [item[0] for item in results if item[0] is not None]
ValidItems(results) ==
    LET kept == SelectSeq(results, LAMBDA r : r[1].t # "none")
    IN [i \in DOMAIN kept |-> kept[i][1].s]

\* update(): the gather of the dequeue tasks returns, in task order.
UpdateGathered ==
    /\ upd.pc = "gather_dequeue"
    /\ \A i \in DOMAIN upd.tasks : upd.tasks[i] = "done"
    /\ upd' = IF ValidItems(upd.results) = <<>>
              THEN UpdIdle("True")
              ELSE [upd EXCEPT !.pc = "gather_enqueue",
                               !.valid_items = ValidItems(upd.results)]
    /\ updStart' = IF upd'.pc = "idle" THEN PyNone ELSE updStart
    /\ UNCHANGED <<sother, stopAsked, working, storevars, now, last_update_timemarker, wpc, wtarget,
                   produced, joins, benchOrder, observed, viewer_sightings, refills>>

\* update(): the enqueue tasks.  They queue up on the handle's asyncio lock
\* in the order of valid_items, so they run one after the other; the gather
\* lets the first exception out of update().  With fail the script call
\* raises a RedisError, which enqueue() turns into RedisSharedQueueError.
UpdateEnqueue(fail) ==
    /\ upd.pc = "gather_enqueue"
    /\ LET h == handles["workbench"]
           item == Head(upd.valid_items)
           o == IF fail
                THEN [list |-> redis[h.key], raised |-> "RedisSharedQueueError"]
                ELSE EnqueueOutcome(h, redis[h.key], EnqueueData(PyStr(item)))
           raised == IF upd.raised = "none" THEN o.raised ELSE upd.raised
       IN /\ redis' = [redis EXCEPT ![h.key] = o.list]
          /\ benchOrder' = IF o.raised = "none"
                           THEN Append(benchOrder, item) ELSE benchOrder
          /\ refills' = IF o.raised = "none" /\ Len(benchOrder) = updStart.bench
                        THEN Append(refills, updStart.at) ELSE refills
          /\ upd' = IF Tail(upd.valid_items) = <<>>
                    THEN UpdIdle(IF raised = "none" THEN "True" ELSE raised)
                    ELSE [upd EXCEPT !.valid_items = Tail(upd.valid_items),
                                     !.raised = raised]
    /\ updStart' = IF upd'.pc = "idle" THEN PyNone ELSE updStart
    /\ UNCHANGED <<sother, stopAsked, working, handles, locks, now, last_update_timemarker, wpc, wtarget,
                   produced, joins, observed, viewer_sightings>>

\* processing_loop: dequeue(), its size check; an empty answer ends the loop.
WorkerDequeueSize(w) ==
    /\ wpc[w] = "loop"
    /\ wpc' = [wpc EXCEPT ![w] = IF queue_size(redis[handles["worker"].key]) = 0
                                 THEN "close" ELSE "dequeue_script"]
    /\ working' = [working EXCEPT ![w] = queue_size(redis[handles["worker"].key]) # 0]
    /\ UNCHANGED <<sother, stopAsked, storevars, now, last_update_timemarker, upd, wtarget,
                   produced, joins, benchOrder, observed, viewer_sightings, refills, updStart>>

\* processing_loop: dequeue(), its pop; the worker now holds target_channel.
WorkerDequeueScript(w) ==
    /\ wpc[w] = "dequeue_script"
    /\ LET o == DequeueOutcome(redis[handles["worker"].key]) IN
       /\ redis' = [redis EXCEPT ![handles["worker"].key] = o.list]
       /\ wtarget' = [wtarget EXCEPT ![w] = o.ret[1]]
       /\ IF o.ret[1].t = "none"
          THEN /\ wpc' = [wpc EXCEPT ![w] = "close"]
               /\ working' = [working EXCEPT ![w] = FALSE]
               /\ joins' = joins
          ELSE /\ wpc' = [wpc EXCEPT ![w] = "fetch"]
               /\ working' = working
               /\ joins' = Append(joins, now)
    /\ UNCHANGED <<sother, stopAsked, handles, locks, now, last_update_timemarker, upd,
                   produced, benchOrder, observed, viewer_sightings, refills, updStart>>

\* processing_loop: connect(), fetch_viewer_list_for_channels([target_channel])
\* and the log line; nothing else is done with the results.
WorkerFetch(w, names) ==
    /\ wpc[w] = "fetch"
    /\ observed' = [l \in Logins |-> IF l \in names THEN observed[l] + 1
                                     ELSE observed[l]]
    /\ wpc' = [wpc EXCEPT ![w] = "loop"]
    /\ UNCHANGED <<sother, stopAsked, working, storevars, now, last_update_timemarker, upd, wtarget,
                   produced, joins, benchOrder, viewer_sightings, refills, updStart>>

\* processing_loop: await self._listener.close() after the loop
WorkerClose(w) ==
    /\ wpc[w] = "close"
    /\ wpc' = [wpc EXCEPT ![w] = "returned"]
    /\ UNCHANGED <<sother, stopAsked, working, storevars, now, last_update_timemarker, upd, wtarget,
                   produced, joins, benchOrder, observed, viewer_sightings, refills, updStart>>

ScanNext ==
    \/ Tick
    \/ PendingEnqueue
    \/ UpdateCall
    \/ UpdatePendingSize
    \/ UpdateRemainingSpace
    \/ \E i \in 1..TWITCH_CHANNEL_JOIN_LIMIT_COUNT : UpdateDequeueSize(i)
    \/ \E i \in 1..TWITCH_CHANNEL_JOIN_LIMIT_COUNT : UpdateDequeueScript(i)
    \/ UpdateGathered
    \/ \E fail \in BOOLEAN : UpdateEnqueue(fail)
    \/ \E w \in Workers : WorkerDequeueSize(w)
    \/ \E w \in Workers : WorkerDequeueScript(w)
    \/ \E w \in Workers, names \in NameSets : WorkerFetch(w, names)
    \/ \E w \in Workers : WorkerClose(w)

(***************************************************************************)
(* SpecWorker: the processing_loop of the workers at the grain of its      *)
(* awaits, with set_state() called from outside and the 366 frame of the   *)
(* joined channel arriving, or not, from the IRC connection.               *)
(***************************************************************************)
wother == <<qvars, cache, cachevars, secvars, fvars, lbatch, ltask, lcall, ljoined,
            lparts, lframes, now, last_update_timemarker, refills, updStart, upd,
            benchOrder, observed, viewer_sightings, joins>>

\* ViewerListFetchData(), the fields the wait reads
FetchData == [done |-> FALSE]

WorkerInit ==
    /\ \/ handles = [h \in {"workbench", "worker"} |->
                        get_redis_shared_queue(WorkbenchDetails)]
       \/ handles = [h \in {"workbench", "worker"} |-> FixtureWorkbenchQueue]
    /\ redis = [k \in {get_redis_shared_queue(WorkbenchDetails).key,
                        FixtureWorkbenchQueue.key} |-> <<>>]
    /\ locks = [h \in {"workbench", "worker"} |-> "free"]
    /\ wpc = [w \in Workers |-> "loop"]
    /\ wtarget = [w \in Workers |-> PyNone]
    /\ working = [w \in Workers |-> TRUE]
    /\ stopAsked = {}
    /\ user_lists = [w \in Workers |-> <<>>]
    /\ produced = 0

\* the conductor's handle puts the next channel on the workbench
WorkbenchPut ==
    /\ produced < MaxItems
    /\ LET h == handles["workbench"]
           o == EnqueueOutcome(h, redis[h.key], EnqueueData(PyStr(Chan(produced + 1))))
       IN redis' = [redis EXCEPT ![h.key] = o.list]
    /\ produced' = produced + 1
    /\ UNCHANGED <<wother, handles, locks, wpc, wtarget, working, stopAsked, user_lists>>

\* set_state(working_state)
set_state(w, working_state) ==
    /\ w \notin stopAsked
    /\ wpc[w] \notin {"returned", "raised"}
    /\ working' = [working EXCEPT ![w] = working_state]
    /\ stopAsked' = IF working_state THEN stopAsked ELSE stopAsked \cup {w}
    /\ UNCHANGED <<wother, storevars, wpc, wtarget, user_lists, produced>>

\* `while self._working:`
LoopTest(w) ==
    /\ wpc[w] = "loop"
    /\ wpc' = [wpc EXCEPT ![w] = IF working[w] THEN "dequeue" ELSE "close"]
    /\ UNCHANGED <<wother, storevars, wtarget, working, stopAsked, user_lists, produced>>

\* dequeue(), its size check; `if target_channel is None: self._working = False`
LoopDequeueSize(w) ==
    /\ wpc[w] = "dequeue"
    /\ IF queue_size(redis[handles["worker"].key]) = 0
       THEN /\ wpc' = [wpc EXCEPT ![w] = "loop"]
            /\ wtarget' = [wtarget EXCEPT ![w] = PyNone]
            /\ working' = [working EXCEPT ![w] = FALSE]
       ELSE /\ wpc' = [wpc EXCEPT ![w] = "dequeue_script"]
            /\ UNCHANGED <<wtarget, working>>
    /\ UNCHANGED <<wother, storevars, stopAsked, user_lists, produced>>

\* dequeue(), its pop, and the branch on target_channel
LoopDequeueScript(w) ==
    /\ wpc[w] = "dequeue_script"
    /\ LET o == DequeueOutcome(redis[handles["worker"].key]) IN
       /\ redis' = [redis EXCEPT ![handles["worker"].key] = o.list]
       /\ wtarget' = [wtarget EXCEPT ![w] = o.ret[1]]
       /\ IF o.ret[1].t = "none"
          THEN /\ wpc' = [wpc EXCEPT ![w] = "loop"]
               /\ working' = [working EXCEPT ![w] = FALSE]
          ELSE /\ wpc' = [wpc EXCEPT ![w] = "join"]
               /\ working' = working
    /\ UNCHANGED <<wother, handles, locks, stopAsked, user_lists, produced>>

\* connect(), fetch_viewer_list_for_channels([target_channel]) up to the
\* wait: _user_lists is rebuilt and the channel joined.  A join that raises
\* leaves fetch and processing_loop as VLFetcherChannelJoinError, which no
\* handler on the way names.
LoopJoin(w, outcome) ==
    /\ wpc[w] = "join"
    /\ IF outcome = "ok"
       THEN /\ user_lists' = [user_lists EXCEPT ![w] =
                                 [c \in {wtarget[w].s} |-> FetchData]]
            /\ wpc' = [wpc EXCEPT ![w] = "wait"]
       ELSE /\ user_lists' = [user_lists EXCEPT ![w] =
                                 [c \in {wtarget[w].s} |-> [done |-> TRUE]]]
            /\ wpc' = [wpc EXCEPT ![w] = "raised"]
    /\ UNCHANGED <<wother, storevars, wtarget, working, stopAsked, produced>>

\* event_raw_data with the 366 of the joined channel: done is set
EndOfNamesArrives(w) ==
    /\ wpc[w] = "wait"
    /\ ~user_lists[w][wtarget[w].s].done
    /\ user_lists' = [user_lists EXCEPT ![w][wtarget[w].s].done = TRUE]
    /\ UNCHANGED <<wother, storevars, wpc, wtarget, working, stopAsked, produced>>

\* _wait_for_user_list: `while not done: await asyncio.sleep(0.1)` has
\* seen done; the fetch returns and the loop goes round
LoopFetchReturn(w) ==
    /\ wpc[w] = "wait"
    /\ user_lists[w][wtarget[w].s].done
    /\ wpc' = [wpc EXCEPT ![w] = "loop"]
    /\ UNCHANGED <<wother, storevars, wtarget, working, stopAsked, user_lists, produced>>

\* `await self._listener.close()` after the loop
LoopClose(w) ==
    /\ wpc[w] = "close"
    /\ wpc' = [wpc EXCEPT ![w] = "returned"]
    /\ UNCHANGED <<wother, storevars, wtarget, working, stopAsked, user_lists, produced>>

\* the steps the event loop of worker w takes by itself
LoopStep(w) ==
    \/ LoopTest(w)
    \/ LoopDequeueSize(w)
    \/ LoopDequeueScript(w)
    \/ \E outcome \in {"ok", "raise"} : LoopJoin(w, outcome)
    \/ LoopFetchReturn(w)
    \/ LoopClose(w)

WorkerNext ==
    \/ WorkbenchPut
    \/ \E w \in Workers, working_state \in {FALSE} : set_state(w, working_state)
    \/ \E w \in Workers : LoopTest(w)
    \/ \E w \in Workers : LoopDequeueSize(w)
    \/ \E w \in Workers : LoopDequeueScript(w)
    \/ \E w \in Workers, outcome \in {"ok", "raise"} : LoopJoin(w, outcome)
    \/ \E w \in Workers : EndOfNamesArrives(w)
    \/ \E w \in Workers : LoopFetchReturn(w)
    \/ \E w \in Workers : LoopClose(w)

(***************************************************************************)
(* ViewerSightingsCache.  Every shard is a connection to the same Redis    *)
(* database (Config.get_redis_args()), so the shards share one keyspace.   *)
(***************************************************************************)
EXISTS(h) == h.has # {}
HSET(h, field, value) ==
    [[h EXCEPT ![field] = value] EXCEPT !.has = h.has \cup {field}]
HINCRBY(h, field, n) ==
    IF field \in h.has THEN [h EXCEPT ![field] = h[field] + n]
    ELSE HSET(h, field, n)

\* json.dumps / json.loads of a bool, isoformat / fromisoformat of a time
JsonBool(b) == IF b THEN "true" ELSE "false"
JsonLoadsBool(s) == s = "true"
IsoFormat(t) == "T" \o ToString(t)
FromIsoFormat(s) == CHOOSE t \in 0..(MaxTime + 1) : IsoFormat(t) = s

\* increment_script with the counter written instead of incremented.
increment_script_hset(h, timestamp) ==
    LET h1 == HSET(h, "times_seen", 1)
    IN [hash |-> HSET(h1, "timestamp", timestamp), ret |-> h1.times_seen]

\* increment_times_seen: increment_script
increment_script(h, timestamp) ==
    LET h1 == HINCRBY(h, "times_seen", 1)
    IN [hash |-> HSET(h1, "timestamp", timestamp), ret |-> h1.times_seen]

\* the flag script counting a sighting as well
set_flag_script_counts(h, field, value) ==
    IF EXISTS(h) THEN [hash |-> HSET(HINCRBY(h, "times_seen", 1), field, value), ret |-> 1]
    ELSE [hash |-> h, ret |-> 0]

\* the flag script without its EXISTS test
set_flag_script_create(h, field, value) ==
    [hash |-> HSET(h, field, value), ret |-> 1]

\* set_enriched / set_aggregated: the script, for the field it writes
set_flag_script(h, field, value) ==
    IF EXISTS(h) THEN [hash |-> HSET(h, field, value), ret |-> 1]
    ELSE [hash |-> h, ret |-> 0]

\* upsert_script writing ARGV[4] over the counter of an existing entry
upsert_script_overwrite(h, a) ==
    HSET(HSET(HSET(HSET(h, "times_seen", a.times_seen),
         "enriched", a.enriched), "aggregated", a.aggregated),
         "timestamp", a.timestamp)

\* set_user_data: upsert_script with ARGV = enriched, aggregated, timestamp,
\* times_seen
upsert_script(h, a) ==
    IF EXISTS(h)
    THEN HSET(HSET(HSET(HINCRBY(h, "times_seen", 1),
              "enriched", a.enriched), "aggregated", a.aggregated),
              "timestamp", a.timestamp)
    ELSE HSET(HSET(HSET(HSET(h, "times_seen", a.times_seen),
              "enriched", a.enriched), "aggregated", a.aggregated),
              "timestamp", a.timestamp)

\* get_user_data: HGETALL and the construction of the CachedViewerSighting;
\* a missing timestamp field is replaced by the time of the call.
get_user_data(h, username, calltime) ==
    IF ~EXISTS(h) THEN PyNone
    ELSE [t |-> "CachedViewerSighting",
          username |-> username,
          times_seen |-> IF "times_seen" \in h.has THEN h.times_seen ELSE 0,
          enriched |-> JsonLoadsBool(IF "enriched" \in h.has
                                     THEN h.enriched ELSE "false"),
          aggregated |-> JsonLoadsBool(IF "aggregated" \in h.has
                                       THEN h.aggregated ELSE "false"),
          timestamp |-> FromIsoFormat(IF "timestamp" \in h.has
                                      THEN h.timestamp ELSE IsoFormat(calltime))]

\* the clear script with the bare prefix as its MATCH pattern: no key matches
clear_script_nowildcard(keyspace) == keyspace

\* _load_clear_script: SCAN ... MATCH "viewer_sighting:*" until the cursor
\* is back at "0", DEL of every key returned; every key of the cache
\* matches the pattern.
clear_script(keyspace) == [l \in DOMAIN keyspace |-> CacheAbsent]

\* ViewerSightingsCache(num_shards): the number of connections in _shards
num_shards == 2

CTasks == {"w1", "w2"}
CIdle == [pc |-> "idle"]
\* the sightings set_user_data is called with
CSightings(username, time) ==
    { [username |-> username, times_seen |-> 3, enriched |-> e,
       aggregated |-> FALSE, timestamp |-> time] : e \in BOOLEAN }

CacheInit ==
    /\ cache = [l \in Logins |-> CacheAbsent]
    /\ cpc = [t \in CTasks |-> CIdle]
    /\ cret = [t \in CTasks |-> PyNone]
    /\ incRets = [l \in Logins |-> <<>>]
    /\ onlyIncr = [l \in Logins |-> TRUE]
    /\ cleared = [t \in CTasks |-> {}]
    /\ cacheCalls = 0
    /\ shard_down = {}
    /\ now = 0

\* time passes
CacheTick ==
    /\ now < MaxCacheTime
    /\ now' = now + 1
    /\ UNCHANGED <<cother, cache, cachevars>>

\* A call up to the point where its script is sent: the key, and the
\* arguments computed by the caller.
CacheCall(t, op, username, args) ==
    /\ cpc[t].pc = "idle"
    /\ cacheCalls < MaxCacheCalls
    /\ cpc' = [cpc EXCEPT ![t] = [pc |-> op, username |-> username, args |-> args]]
    /\ cacheCalls' = cacheCalls + 1
    /\ UNCHANGED <<cother, shard_down, now, cache, cret, incRets, onlyIncr, cleared>>

\* increment_times_seen(username): timestamp = now, then the script
IncrementCall(t, username) ==
    CacheCall(t, "increment_times_seen", username, IsoFormat(now))

IncrementScript(t) ==
    /\ cpc[t].pc = "increment_times_seen"
    /\ LET l == cpc[t].username
           r == increment_script(cache[l], cpc[t].args)
       IN /\ cache' = [cache EXCEPT ![l] = r.hash]
          /\ cret' = [cret EXCEPT ![t] = PyInt(r.ret)]
          /\ incRets' = [incRets EXCEPT ![l] = Append(incRets[l], r.ret)]
    /\ cpc' = [cpc EXCEPT ![t] = CIdle]
    /\ UNCHANGED <<cother, shard_down, now, onlyIncr, cleared, cacheCalls>>

\* set_enriched(username, enriched) / set_aggregated(username, aggregated)
SetFlagCall(t, field, username, value) ==
    CacheCall(t, field, username, JsonBool(value))

SetFlagScript(t) ==
    /\ cpc[t].pc \in {"enriched", "aggregated"}
    /\ LET l == cpc[t].username
           r == set_flag_script(cache[l], cpc[t].pc, cpc[t].args)
       IN /\ cache' = [cache EXCEPT ![l] = r.hash]
          /\ cret' = [cret EXCEPT ![t] = [t |-> "bool", b |-> r.ret = 1]]
    /\ cpc' = [cpc EXCEPT ![t] = CIdle]
    /\ UNCHANGED <<cother, shard_down, now, incRets, onlyIncr, cleared, cacheCalls>>

\* set_user_data(sighting)
SetUserDataArgs(sighting) ==
    [enriched |-> JsonBool(sighting.enriched),
     aggregated |-> JsonBool(sighting.aggregated),
     timestamp |-> IsoFormat(sighting.timestamp),
     times_seen |-> sighting.times_seen]

SetUserDataCall(t, sighting) ==
    CacheCall(t, "set_user_data", sighting.username, SetUserDataArgs(sighting))

SetUserDataScript(t) ==
    /\ cpc[t].pc = "set_user_data"
    /\ LET l == cpc[t].username IN
       /\ cache' = [cache EXCEPT ![l] = upsert_script(cache[l], cpc[t].args)]
       /\ onlyIncr' = [onlyIncr EXCEPT ![l] = FALSE]
    /\ cret' = [cret EXCEPT ![t] = PyNone]
    /\ cpc' = [cpc EXCEPT ![t] = CIdle]
    /\ UNCHANGED <<cother, shard_down, now, incRets, cleared, cacheCalls>>

\* get_user_data(username)
GetUserDataCall(t, username) ==
    CacheCall(t, "get_user_data", username, now)

GetUserDataScript(t) ==
    /\ cpc[t].pc = "get_user_data"
    /\ cret' = [cret EXCEPT ![t] =
                    get_user_data(cache[cpc[t].username], cpc[t].username, cpc[t].args)]
    /\ cpc' = [cpc EXCEPT ![t] = CIdle]
    /\ UNCHANGED <<cother, shard_down, now, cache, incRets, onlyIncr, cleared, cacheCalls>>

\* clear_cache(): the script is loaded on every shard and the evalsha
\* coroutines are collected for gather
ClearCacheCall(t) ==
    /\ cpc[t].pc = "idle"
    /\ cacheCalls < MaxCacheCalls
    /\ cpc' = [cpc EXCEPT ![t] = [pc |-> "clear_cache",
                                  before |-> {l \in Logins : EXISTS(cache[l])},
                                  tasks |-> num_shards]]
    /\ cacheCalls' = cacheCalls + 1
    /\ UNCHANGED <<cother, shard_down, now, cache, cret, incRets, onlyIncr, cleared>>

\* one of the gathered evalsha calls runs its script; the call returns when
\* the last of them has
ClearCacheScript(t) ==
    /\ cpc[t].pc = "clear_cache"
    /\ cache' = clear_script(cache)
    /\ onlyIncr' = [l \in Logins |-> onlyIncr[l] /\ ~EXISTS(cache[l])]
    /\ IF cpc[t].tasks = 1
       THEN /\ cpc' = [cpc EXCEPT ![t] = CIdle]
            /\ cret' = [cret EXCEPT ![t] = PyNone]
            /\ cleared' = [cleared EXCEPT ![t] = cpc[t].before]
       ELSE /\ cpc' = [cpc EXCEPT ![t].tasks = @ - 1]
            /\ UNCHANGED <<cret, cleared>>
    /\ UNCHANGED <<cother, shard_down, now, incRets, cacheCalls>>

CacheNext ==
    \/ CacheTick
    \/ \E t \in CTasks, l \in Logins : IncrementCall(t, l)
    \/ \E t \in CTasks : IncrementScript(t)
    \/ \E t \in CTasks, l \in Logins, f \in {"enriched", "aggregated"}, v \in BOOLEAN :
          SetFlagCall(t, f, l, v)
    \/ \E t \in CTasks : SetFlagScript(t)
    \/ \E t \in CTasks, l \in Logins : \E sg \in CSightings(l, now) : SetUserDataCall(t, sg)
    \/ \E t \in CTasks : SetUserDataScript(t)
    \/ \E t \in CTasks, l \in Logins : GetUserDataCall(t, l)
    \/ \E t \in CTasks : GetUserDataScript(t)
    \/ \E t \in CTasks : ClearCacheCall(t)
    \/ \E t \in CTasks : ClearCacheScript(t)

(***************************************************************************)
(* SpecShards: one task using the cache while one of its connections has   *)
(* failed: every call made on that connection raises.                      *)
(***************************************************************************)
ShardLogins == {"alice", "bob", "lurker"}
\* int(hashlib.md5(username.encode()).hexdigest(), 16) % 12
Md5Mod12(username) ==
    CASE username = "alice" -> 4
      [] username = "bob" -> 8
      [] username = "lurker" -> 5

\* _get_shard(username), as an index into _shards
get_shard(username) == Md5Mod12(username) % num_shards

Shards == 0..(num_shards - 1)

\* the outcome of a finished call: what was called, on which connections
\* failures were pending, what it raised
ShardDone(op, username, raised) ==
    [op |-> op, username |-> username, raised |-> raised, down |-> shard_down]

ShardsInit ==
    /\ cache = [l \in ShardLogins |-> CacheAbsent]
    /\ \E i \in Shards : shard_down = {i}
    /\ cret = [op |-> "none"]
    /\ cacheCalls = 0
    /\ cpc = <<>> /\ incRets = <<>> /\ onlyIncr = <<>> /\ cleared = <<>>
    /\ now = 0

ShardFinish(rec) ==
    /\ cret' = rec
    /\ cacheCalls' = cacheCalls + 1
    /\ UNCHANGED <<cother, now, cpc, incRets, onlyIncr, cleared, shard_down>>

\* increment_times_seen(username) on the connection _get_shard picks
ShardIncrement(username) ==
    /\ cacheCalls < MaxShardCalls
    /\ IF get_shard(username) \in shard_down
       THEN /\ cache' = cache
            /\ ShardFinish(ShardDone("increment_times_seen", username, "RedisError"))
       ELSE /\ cache' = [cache EXCEPT ![username] =
                            increment_script(cache[username], IsoFormat(now)).hash]
            /\ ShardFinish(ShardDone("increment_times_seen", username, "none"))

\* set_enriched(username, enriched) on the connection _get_shard picks
ShardSetEnriched(username, enriched) ==
    /\ cacheCalls < MaxShardCalls
    /\ IF get_shard(username) \in shard_down
       THEN /\ cache' = cache
            /\ ShardFinish(ShardDone("set_enriched", username, "RedisError"))
       ELSE /\ cache' = [cache EXCEPT ![username] =
                            set_flag_script(cache[username], "enriched",
                                            JsonBool(enriched)).hash]
            /\ ShardFinish(ShardDone("set_enriched", username, "none"))

\* clear_cache() up to the first exception: script_load is awaited shard by
\* shard while the evalsha coroutines are only collected; they run in the
\* gather that follows the loop.  `at` is the call on the failed connection
\* that raises: its script_load, or, the load having gone through, its
\* evalsha.
clear_cache(keyspace, down, at) ==
    IF down = {} THEN [keyspace |-> clear_script(keyspace), raised |-> "none"]
    ELSE IF at = "script_load"
    THEN [keyspace |-> keyspace, raised |-> "RedisError"]
    ELSE [keyspace |-> IF Shards \ down # {} THEN clear_script(keyspace) ELSE keyspace,
          raised |-> "RedisError"]

ShardClearCache(at) ==
    /\ cacheCalls < MaxShardCalls
    /\ LET r == clear_cache(cache, shard_down, at)
       IN /\ cache' = r.keyspace
          /\ ShardFinish(ShardDone("clear_cache", "", r.raised))

ShardsNext ==
    \/ \E l \in ShardLogins : ShardIncrement(l)
    \/ \E l \in ShardLogins, e \in BOOLEAN : ShardSetEnriched(l, e)
    \/ \E at \in {"script_load", "evalsha"} : ShardClearCache(at)

(***************************************************************************)
(* TwitchSecretsManager and the secrets table.                             *)
(***************************************************************************)
STasks == {"a", "b"}
SIdle == [pc |-> "idle"]
NoResult == [op |-> "none"]

\* TokenType
TokenType == {"bearer"}
\* the strings of the model that match TWITCH_TOKEN_REGEX
MatchesTokenRegex(s) == s \in {"tokA", "refA", "tokB", "refB", "tokR", "refR"}

RECURSIVE JoinScope(_)
\* " ".join(data["scope"])
JoinScope(l) ==
    IF l = <<>> THEN ""
    ELSE IF Len(l) = 1 THEN l[1]
    ELSE l[1] \o " " \o JoinScope(Tail(l))

\* SecretCreate.validate_fields: a list of scopes becomes one string
NormalisedScope(scope) == IF scope.t = "list" THEN JoinScope(scope.l) ELSE scope.s

\* SecretCreate(**payload): the validator's assertions and the field constraints
SecretCreateValid(p) ==
    /\ p.token_type \in TokenType
    /\ p.scope # PyNone
    /\ MatchesTokenRegex(p.access_token)
    /\ MatchesTokenRegex(p.refresh_token)
    /\ p.expires_in > 0
    /\ Len(NormalisedScope(p.scope)) >= 7

\* the validated SecretCreate
SecretCreate(p) ==
    [access_token |-> p.access_token, refresh_token |-> p.refresh_token,
     expires_in |-> p.expires_in, token_type |-> p.token_type,
     scope |-> NormalisedScope(p.scope)]

\* Secret(**new_secret.model_dump()): id defaults to None, enforce_one_row to
\* its constant
Secret(c) ==
    [id |-> PyNone, enforce_one_row |-> "enforce_one_row",
     access_token |-> c.access_token, refresh_token |-> c.refresh_token,
     expires_in |-> c.expires_in, token_type |-> c.token_type, scope |-> c.scope]

\* _calculate_expiry_time(lifetime_in_seconds)
calculate_expiry_time(lifetime_in_seconds) == now + lifetime_in_seconds

\* the payloads the servlet posts
ServletPayloads ==
    { [access_token |-> "tokA", refresh_token |-> "refA", expires_in |-> 1,
       token_type |-> "bearer", scope |-> PyStr("chat:read")],
      [access_token |-> "tokB", refresh_token |-> "refB", expires_in |-> 2,
       token_type |-> "bearer", scope |-> [t |-> "list", l |-> <<"chat:read", "chat:edit">>]],
      [access_token |-> "bad token!", refresh_token |-> "refA", expires_in |-> 1,
       token_type |-> "bearer", scope |-> PyStr("chat:read")],
      [access_token |-> "tokA", refresh_token |-> "refA", expires_in |-> 0,
       token_type |-> "bearer", scope |-> PyStr("chat")] }

\* what the refresh endpoint may answer: a token response, an error body,
\* or a failure raised inside revitalize_tokens
RefreshAnswers ==
    { [kind |-> "tokens", access_token |-> "tokR", refresh_token |-> "refR", expires_in |-> 2],
      [kind |-> "error"],
      [kind |-> "raise"] }

\* upsert_one on a table whose enforce_one_row column is not unique.
upsert_one_nounique(table, db_model) ==
    LET existing == {i \in DOMAIN table : table[i].id = db_model.id}
    IN IF existing # {}
       THEN [table |-> [i \in DOMAIN table |-> IF i \in existing THEN db_model ELSE table[i]],
             raised |-> "none"]
       ELSE [table |-> Append(table, [db_model EXCEPT !.id = PyInt(Len(table) + 1)]),
             raised |-> "none"]

\* upsert_one(db_model, session): select by primary key, update the row found
\* or insert; the commit enforces the unique enforce_one_row column
upsert_one(table, db_model) ==
    LET primary_key_value == db_model.id
        existing == {i \in DOMAIN table : table[i].id = primary_key_value}
    IN IF existing # {}
       THEN [table |-> [i \in DOMAIN table |-> IF i \in existing THEN db_model ELSE table[i]],
             raised |-> "none"]
       ELSE IF \E i \in DOMAIN table : table[i].enforce_one_row = db_model.enforce_one_row
            THEN [table |-> table, raised |-> "IntegrityError"]
            ELSE [table |-> Append(table, [db_model EXCEPT !.id = PyInt(Len(table) + 1)]),
                  raised |-> "none"]

\* fetch_secret(): scalar_one_or_none(), then Secret(**secret_read.model_dump())
fetch_secret(table) ==
    IF Len(table) = 0 THEN [raised |-> "AttributeError", secret |-> PyNone]
    ELSE IF Len(table) > 1 THEN [raised |-> "MultipleResultsFound", secret |-> PyNone]
    ELSE [raised |-> "none", secret |-> table[1]]

SecretsInit ==
    /\ secrets_store = PyNone
    /\ expiration_time = PyNone
    /\ secrets_table = <<>>
    /\ secrets_lock = "free"
    /\ spc = [t \in STasks |-> SIdle]
    /\ sret = [t \in STasks |-> NoResult]
    /\ refreshCalls = 0
    /\ storedExpiry = PyNone
    /\ lastIngest = PyNone
    /\ secCalls = 0
    /\ now = 0

\* time passes
SecretsTick ==
    /\ now < MaxSecTime
    /\ now' = now + 1
    /\ UNCHANGED <<mother, secvars>>

\* a call ends: the locks are released and the caller has its outcome
SecretsDone(t, outcome) ==
    /\ secrets_lock' = "free"
    /\ spc' = [spc EXCEPT ![t] = SIdle]
    /\ sret' = [sret EXCEPT ![t] = outcome]

\* a call that enters without waiting for the lock.
SecretsEnter_nolock(t) ==
    /\ spc[t].pc = "idle"
    /\ secCalls < MaxSecCalls
    /\ secCalls' = secCalls + 1

\* a call passes `async with self._asyncio_lock: with self._multiprocess_lock:`
SecretsEnter(t) ==
    /\ spc[t].pc = "idle"
    /\ secrets_lock = "free"
    /\ secCalls < MaxSecCalls
    /\ secCalls' = secCalls + 1

\* _insert_or_update_secret up to its await: the store and the expiry are set
InsertOrUpdateBegin(new_secret) ==
    /\ secrets_store' = Secret(new_secret)
    /\ expiration_time' = PyInt(calculate_expiry_time(new_secret.expires_in))
    /\ storedExpiry' = PyInt(calculate_expiry_time(new_secret.expires_in))

\* _insert_or_update_secret from its await on: the upsert, and on any
\* exception the store and the expiry are invalidated
InsertOrUpdateEnd(t, op) ==
    LET r == upsert_one(secrets_table, secrets_store)
    IN /\ secrets_table' = r.table
       /\ IF r.raised = "none"
          THEN /\ UNCHANGED <<secrets_store, expiration_time, storedExpiry>>
               /\ SecretsDone(t, [op |-> op, kind |-> "return", value |-> "True",
                                  answered |-> TRUE, before |-> spc[t].before,
                                  after |-> expiration_time])
          ELSE /\ secrets_store' = PyNone
               /\ expiration_time' = PyNone
               /\ storedExpiry' = PyNone
               /\ SecretsDone(t, [op |-> op, kind |-> "raise",
                                  value |-> "TwitchSecretsManagerException",
                                  answered |-> TRUE, before |-> spc[t].before,
                                  after |-> PyNone])

\* process_token_update_from_servlet(servlet_payload), up to the upsert
ProcessTokenUpdate(t, servlet_payload) ==
    /\ SecretsEnter(t)
    /\ IF SecretCreateValid(servlet_payload)
       THEN /\ InsertOrUpdateBegin(SecretCreate(servlet_payload))
            /\ secrets_lock' = t
            /\ spc' = [spc EXCEPT ![t] = [pc |-> "ptu_upsert", before |-> expiration_time,
                           ingest |-> [token |-> servlet_payload.access_token,
                                       until |-> calculate_expiry_time(servlet_payload.expires_in)]]]
            /\ UNCHANGED sret
       ELSE /\ SecretsDone(t, [op |-> "process_token_update_from_servlet", kind |-> "raise",
                               value |-> "TwitchSecretsManagerException",
                               answered |-> FALSE, before |-> expiration_time,
                               after |-> expiration_time])
            /\ UNCHANGED <<secrets_store, expiration_time, storedExpiry>>
    /\ UNCHANGED <<mother, now, secrets_table, refreshCalls, lastIngest>>

\* process_token_update_from_servlet: the upsert and the return
ProcessTokenUpdateUpsert(t) ==
    /\ spc[t].pc = "ptu_upsert"
    /\ InsertOrUpdateEnd(t, "process_token_update_from_servlet")
    /\ lastIngest' = spc[t].ingest
    /\ UNCHANGED <<mother, now, refreshCalls, secCalls>>

\* get_credentials wraps the token; get_access_token returns it
AccessResult(op, token) ==
    IF op = "get_credentials"
    THEN [access_token |-> token, client_id |-> "client_id", client_secret |-> "client_secret"]
    ELSE token

\* get_access_token once _secrets_store is settled: the expiry is computed
\* anew from expires_in, then compared with the clock.  _refresh_tokens
\* starts by awaiting _asyncio_lock, which this caller holds.
GetAccessTokenRest(t, op, store, call) ==
    LET expiry == IF store # PyNone
                  THEN PyInt(calculate_expiry_time(store.expires_in))
                  ELSE expiration_time
    IN /\ expiration_time' = expiry
       /\ IF store # PyNone /\ expiry # PyNone /\ now >= expiry.n
          THEN /\ spc' = [spc EXCEPT ![t] = [pc |-> "refresh_tokens", op |-> op, call |-> call]]
               /\ secrets_lock' = t
               /\ UNCHANGED sret
          ELSE IF store = PyNone
          THEN SecretsDone(t, call @@ [op |-> op, kind |-> "raise",
                                       value |-> "TwitchSecretsManagerException"])
          ELSE SecretsDone(t, call @@ [op |-> op, kind |-> "return",
                                       value |-> AccessResult(op, store.access_token)])

\* get_access_token() / get_credentials(), up to fetch_secret when the store
\* is empty and to the end otherwise
GetAccessToken(t, op) ==
    /\ SecretsEnter(t)
    /\ LET call == [expired |-> secrets_store # PyNone /\ storedExpiry # PyNone
                                  /\ now >= storedExpiry.n,
                    asked |-> lastIngest,
                    at |-> now,
                    refreshes |-> 0]
       IN IF secrets_store = PyNone
          THEN /\ spc' = [spc EXCEPT ![t] = [pc |-> "fetch_secret", op |-> op, call |-> call]]
               /\ secrets_lock' = t
               /\ UNCHANGED <<sret, expiration_time>>
          ELSE GetAccessTokenRest(t, op, secrets_store, call)
    /\ UNCHANGED <<mother, now, secrets_store, secrets_table, refreshCalls,
                   storedExpiry, lastIngest>>

\* get_access_token: fetch_secret() answers
GetAccessTokenFetch(t) ==
    /\ spc[t].pc = "fetch_secret"
    /\ LET r == fetch_secret(secrets_table)
       IN IF r.raised # "none"
          THEN /\ SecretsDone(t, spc[t].call @@ [op |-> spc[t].op, kind |-> "raise",
                                                 value |-> r.raised])
               /\ UNCHANGED <<secrets_store, expiration_time, storedExpiry>>
          ELSE /\ secrets_store' = r.secret
               /\ storedExpiry' = PyInt(calculate_expiry_time(r.secret.expires_in))
               /\ GetAccessTokenRest(t, spc[t].op, r.secret, spc[t].call)
    /\ UNCHANGED <<mother, now, secrets_table, refreshCalls, lastIngest, secCalls>>

\* force_tokens_refresh() -> _refresh_tokens(), up to the request
ForceTokensRefresh(t) ==
    /\ SecretsEnter(t)
    /\ IF secrets_store = PyNone
       THEN SecretsDone(t, [op |-> "force_tokens_refresh", kind |-> "raise",
                            value |-> "TwitchSecretsManagerException",
                            answered |-> FALSE, before |-> expiration_time,
                            after |-> expiration_time])
       ELSE /\ spc' = [spc EXCEPT ![t] = [pc |-> "revitalize_tokens",
                                          before |-> expiration_time]]
            /\ secrets_lock' = t
            /\ UNCHANGED sret
    /\ UNCHANGED <<mother, now, secrets_store, expiration_time, secrets_table,
                   refreshCalls, storedExpiry, lastIngest>>

\* _refresh_tokens: revitalize_tokens answers, the new SecretCreate is built
RevitalizeTokens(t, response) ==
    /\ spc[t].pc = "revitalize_tokens"
    /\ refreshCalls' = refreshCalls + 1
    /\ lastIngest' = PyNone
    /\ IF response.kind = "raise"
       THEN /\ SecretsDone(t, [op |-> "force_tokens_refresh", kind |-> "raise",
                               value |-> "TwitchAPIDelegateTokenRefresh",
                               answered |-> FALSE, before |-> spc[t].before,
                               after |-> expiration_time])
            /\ UNCHANGED <<secrets_store, expiration_time, storedExpiry>>
       ELSE IF response.kind = "error"
       THEN /\ SecretsDone(t, [op |-> "force_tokens_refresh", kind |-> "raise",
                               value |-> "KeyError",
                               answered |-> FALSE, before |-> spc[t].before,
                               after |-> expiration_time])
            /\ UNCHANGED <<secrets_store, expiration_time, storedExpiry>>
       ELSE LET payload == [access_token |-> response.access_token,
                            refresh_token |-> response.refresh_token,
                            expires_in |-> response.expires_in,
                            token_type |-> secrets_store.token_type,
                            scope |-> PyStr(secrets_store.scope)]
            IN IF SecretCreateValid(payload)
               THEN /\ InsertOrUpdateBegin(SecretCreate(payload))
                    /\ spc' = [spc EXCEPT ![t] = [pc |-> "refresh_upsert",
                                                  before |-> spc[t].before]]
                    /\ UNCHANGED <<secrets_lock, sret>>
               ELSE /\ SecretsDone(t, [op |-> "force_tokens_refresh", kind |-> "raise",
                                       value |-> "TwitchSecretsManagerException",
                                       answered |-> FALSE, before |-> spc[t].before,
                                       after |-> expiration_time])
                    /\ UNCHANGED <<secrets_store, expiration_time, storedExpiry>>
    /\ UNCHANGED <<mother, now, secrets_table, secCalls>>

\* _refresh_tokens: the upsert of the refreshed secret
RefreshUpsert(t) ==
    /\ spc[t].pc = "refresh_upsert"
    /\ InsertOrUpdateEnd(t, "force_tokens_refresh")
    /\ UNCHANGED <<mother, now, refreshCalls, lastIngest, secCalls>>

\* POST /store-token: the answer of the route for the outcome of
\* process_token_update_from_servlet(payload); only a pydantic ValidationError
\* that reaches the route is answered 400, any other exception 500
store_token(outcome) ==
    IF outcome.kind = "return" THEN 200
    ELSE IF outcome.value = "ValidationError" THEN 400
    ELSE 500

SecretsNext ==
    \/ SecretsTick
    \/ \E t \in STasks, p \in ServletPayloads : ProcessTokenUpdate(t, p)
    \/ \E t \in STasks : ProcessTokenUpdateUpsert(t)
    \/ \E t \in STasks, op \in {"get_access_token", "get_credentials"} : GetAccessToken(t, op)
    \/ \E t \in STasks : GetAccessTokenFetch(t)
    \/ \E t \in STasks : ForceTokensRefresh(t)
    \/ \E t \in STasks, r \in RefreshAnswers : RevitalizeTokens(t, r)
    \/ \E t \in STasks : RefreshUpsert(t)

(***************************************************************************)
(* ViewerListFetcherChannelListener (channel_listener.py).                 *)
(***************************************************************************)
OVERALL_TIMEOUT == 2

\* channel names as callers pass them, and str.lower() on them
LChannelNames == {"chan1", "Chan1", "chan2"}
Lower(c) == IF c = "Chan1" THEN "chan1" ELSE c
Batches == UNION { [1..n -> LChannelNames] : n \in 1..MaxBatch }

\* ViewerListFetchData(): start_time defaults to perf_counter()
ViewerListFetchData(t) ==
    [user_names |-> {}, done |-> FALSE, start_time |-> t, end_time |-> PyNone,
     time_elapsed |-> PyNone, error |-> "none"]

\* the lines the IRC server sends about a joined channel: a JOIN echo, 353s
\* (one of them listing a login that contains "366") and the 366
LinesOf(c) ==
    { [kind |-> "JOIN", channel |-> c, names |-> {"bob"}],
      [kind |-> "353", channel |-> c, names |-> {"alice"}],
      [kind |-> "353", channel |-> c, names |-> {"alice", "u366"}],
      [kind |-> "366", channel |-> c, names |-> {}] }
Lines(joined) == UNION { LinesOf(c) : c \in joined }
Frames(joined) == UNION { [1..n -> Lines(joined)] : n \in 1..MaxLines }

\* the words of the model that contain one of the three patterns
Contains(word, pattern) ==
    <<word, pattern>> \in { <<"u366", "366">>, <<"x353", "353">>, <<"JOINme", "JOIN">> }

\* `pattern in submessage`: the command itself, or a word of the trailing
\* part (a login of a 353, the text of a PRIVMSG) that contains it
LineHas(sub, pattern) ==
    \/ sub.kind = pattern
    \/ \E w \in sub.names : Contains(w, pattern)

\* _process_join_message: the name is added under the channel after '#';
\* on any other line what follows the '#' is not a key of _user_lists
process_join_message(st, sub) ==
    IF sub.kind = "JOIN" /\ sub.channel \in DOMAIN st.lists
    THEN [st EXCEPT !.lists[sub.channel].user_names = @ \cup sub.names,
                    !.channel_name = sub.channel]
    ELSE [st EXCEPT !.raised = TRUE]

\* _process_chatter_list_message with the names of the line replacing the set
process_chatter_list_message_replace(st, sub) ==
    IF sub.channel \in DOMAIN st.lists
    THEN [st EXCEPT !.lists[sub.channel].user_names = sub.names,
                    !.channel_name = sub.channel]
    ELSE [st EXCEPT !.raised = TRUE]

\* _process_chatter_list_message
process_chatter_list_message(st, sub) ==
    IF sub.channel \in DOMAIN st.lists
    THEN [st EXCEPT !.lists[sub.channel].user_names = @ \cup sub.names,
                    !.channel_name = sub.channel]
    ELSE [st EXCEPT !.raised = TRUE]

\* _process_end_of_names: a line with two colons yields the last word of
\* its prefix; a JOIN line has one colon only and fails to parse
process_end_of_names(st, sub) ==
    IF sub.kind # "JOIN"
    THEN [st EXCEPT !.channel_name = sub.channel, !.end_of_names_received = TRUE]
    ELSE [st EXCEPT !.raised = TRUE]

\* event_raw_data, the body of the loop for one submessage: the three tests
\* in turn, an exception ending the submessage
ProcessLine(st, sub) ==
    LET s1 == IF LineHas(sub, "JOIN") THEN process_join_message(st, sub) ELSE st
        s2 == IF ~s1.raised /\ LineHas(sub, "353")
              THEN process_chatter_list_message(s1, sub) ELSE s1
        s3 == IF ~s2.raised /\ LineHas(sub, "366")
              THEN process_end_of_names(s2, sub) ELSE s2
    IN [s3 EXCEPT !.raised = FALSE]

RECURSIVE ProcessLines(_, _)
\* event_raw_data, the loop over the submessages of one frame
ProcessLines(st, submessages) ==
    IF submessages = <<>> THEN st
    ELSE ProcessLines(ProcessLine(st, Head(submessages)), Tail(submessages))

\* event_raw_data(data) and _part_from_channel on the map `lists` at time
\* `time`: the map afterwards and the channels a PART was sent for
event_raw_data(lists, data, part, time) ==
    LET st == ProcessLines([lists |-> lists, channel_name |-> PyNone,
                            end_of_names_received |-> FALSE, raised |-> FALSE], data)
        c == st.channel_name
    IN IF st.end_of_names_received /\ c \in DOMAIN st.lists
       THEN [lists |-> [st.lists EXCEPT
                           ![c].end_time = PyInt(time),
                           ![c].time_elapsed = PyInt(time - st.lists[c].start_time),
                           ![c].done = TRUE,
                           ![c].error = IF part = "raise" THEN "TwitchIOException" ELSE @],
             parted |-> <<c>>]
       ELSE [lists |-> st.lists, parted |-> <<>>]

ListenerInit ==
    /\ lframe = <<>>
    /\ lbefore = <<>>
    /\ user_lists = <<>>
    /\ lbatch = <<>>
    /\ ltask = <<>>
    /\ lcall = [pc |-> "idle"]
    /\ ljoined = {}
    /\ lparts = <<>>
    /\ lframes = 0
    /\ now = 0

\* time passes (the clock is read from the batch entry on)
ListenerTick ==
    /\ lcall.pc # "idle"
    /\ now < MaxListenTime
    /\ now' = now + 1
    /\ UNCHANGED <<lother, lvars>>

\* fetch_viewer_list_for_channels(channels), up to the gather: the map is
\* keyed by the lowercase names, the tasks are given the names as passed
FetchCall(channels) ==
    /\ lcall.pc = "idle"
    /\ user_lists' = [k \in {Lower(channels[i]) : i \in DOMAIN channels}
                        |-> ViewerListFetchData(now)]
    /\ lbatch' = channels
    /\ ltask' = [i \in DOMAIN channels |-> [pc |-> "join", exc |-> "none"]]
    /\ lcall' = [pc |-> "running", exc |-> "none", start_time |-> now, result |-> {},
                 records |-> <<>>]
    /\ UNCHANGED <<lother, now, ljoined, lparts, lframes>>

\* a channel task ends with an exception: gather hands the first one to the
\* waiting fetch call, which does not handle it
TaskRaises(i, exc) ==
    /\ ltask' = [ltask EXCEPT ![i] = [pc |-> "ended", exc |-> exc]]
    /\ lcall' = IF lcall.pc = "running"
                THEN [lcall EXCEPT !.pc = "raised", !.exc = exc]
                ELSE lcall

\* _join_channel(channel_name): join_channels raises an IRC-library error, or
\* returns and get_channel gives None or a channel with its chatters
JoinChannel(i, outcome) ==
    /\ i \in DOMAIN ltask
    /\ ltask[i].pc = "join"
    /\ LET channel_name == lbatch[i] IN
       IF outcome.kind = "raise"
       THEN /\ IF channel_name \in DOMAIN user_lists
               THEN /\ user_lists' = [user_lists EXCEPT ![channel_name].error = "TwitchIOException",
                                                        ![channel_name].done = TRUE]
                    /\ TaskRaises(i, "VLFetcherChannelJoinError")
               ELSE /\ TaskRaises(i, "KeyError")
                    /\ UNCHANGED user_lists
            /\ UNCHANGED ljoined
       ELSE /\ ljoined' = ljoined \cup {Lower(channel_name)}
            /\ IF outcome.kind = "none"
               THEN /\ ltask' = [ltask EXCEPT ![i].pc = "wait"]
                    /\ UNCHANGED <<user_lists, lcall>>
               ELSE IF channel_name \in DOMAIN user_lists
               THEN /\ user_lists' = [user_lists EXCEPT ![channel_name].user_names =
                                                            @ \cup outcome.chatters]
                    /\ ltask' = [ltask EXCEPT ![i].pc = "wait"]
                    /\ UNCHANGED lcall
               ELSE /\ TaskRaises(i, "KeyError")
                    /\ UNCHANGED user_lists
    /\ UNCHANGED <<lother, now, lbatch, lparts, lframes>>

\* what join_channels / get_channel may give
JoinOutcomes ==
    { [kind |-> "raise"], [kind |-> "none"], [kind |-> "channel", chatters |-> {"carol"}] }

\* _wait_for_user_list and the handler of _process_channel_task: one look at
\* the record that ends the wait (done, or OVERALL_TIMEOUT reached)
WaitForUserList(i) ==
    /\ i \in DOMAIN ltask
    /\ ltask[i].pc = "wait"
    /\ LET channel_name == lbatch[i] IN
       IF channel_name \notin DOMAIN user_lists
       THEN /\ TaskRaises(i, "KeyError")
            /\ UNCHANGED user_lists
       ELSE IF user_lists[channel_name].done
       THEN /\ ltask' = [ltask EXCEPT ![i].pc = "ended"]
            /\ UNCHANGED <<user_lists, lcall>>
       ELSE /\ now - user_lists[channel_name].start_time >= OVERALL_TIMEOUT
            /\ user_lists' = [user_lists EXCEPT
                   ![channel_name].end_time = PyInt(now),
                   ![channel_name].time_elapsed = PyInt(now - user_lists[channel_name].start_time),
                   ![channel_name].done = TRUE,
                   ![channel_name].error = "VLFetcherOvertimeError"]
            /\ ltask' = [ltask EXCEPT ![i].pc = "ended"]
            /\ UNCHANGED lcall
    /\ UNCHANGED <<lother, now, lbatch, ljoined, lparts, lframes>>

\* fetch_viewer_list_for_channels: gather is through, the copy of the map is
\* returned (its records are the ones of _user_lists); records is what the
\* caller reads in them at that moment
FetchReturn ==
    /\ lcall.pc = "running"
    /\ \A i \in DOMAIN ltask : ltask[i].pc = "ended" /\ ltask[i].exc = "none"
    /\ lcall' = [lcall EXCEPT !.pc = "returned", !.result = DOMAIN user_lists,
                              !.records = user_lists]
    /\ UNCHANGED <<lother, now, user_lists, lbatch, ltask, ljoined, lparts, lframes>>

\* event_raw_data(data): the submessages in turn, then _part_from_channel for
\* the channel named last when a 366 test fired; part_channels may fail
EventRawData(data, part) ==
    /\ lframes < MaxFrames
    /\ \A k \in DOMAIN data : data[k].channel \in ljoined
    /\ lframes' = lframes + 1
    /\ LET r == event_raw_data(user_lists, data, part, now)
       IN /\ r.parted = <<>> => part = "ok"
          /\ user_lists' = r.lists
          /\ lparts' = lparts \o r.parted
    /\ UNCHANGED <<lother, now, lbatch, ltask, lcall, ljoined>>

ListenerNext ==
    \/ ListenerTick
    \/ \E channels \in Batches : FetchCall(channels)
    \/ \E i \in 1..MaxBatch, o \in JoinOutcomes : JoinChannel(i, o)
    \/ \E i \in 1..MaxBatch : WaitForUserList(i)
    \/ FetchReturn
    \/ \E data \in Frames({Lower(c) : c \in LChannelNames}), part \in {"ok", "raise"} :
          EventRawData(data, part)

(***************************************************************************)
(* SpecFrames: event_raw_data on one frame, for a listener that waits for  *)
(* the lists of chan1 and chan2.                                           *)
(***************************************************************************)
FrameChannels == {"chan1", "chan2"}

\* the lines of a frame about one channel: those of LinesOf, a second 353,
\* and PRIVMSG lines whose text is plain or contains one of the patterns;
\* FrameLines has all of them for chan1 and a 353 and the 366 for chan2
FrameLinesOf(c) ==
    LinesOf(c) \cup
    { [kind |-> "353", channel |-> c, names |-> {"carol", "x353"}],
      [kind |-> "PRIVMSG", channel |-> c, names |-> {"hello"}],
      [kind |-> "PRIVMSG", channel |-> c, names |-> {"u366"}],
      [kind |-> "PRIVMSG", channel |-> c, names |-> {"x353"}],
      [kind |-> "PRIVMSG", channel |-> c, names |-> {"JOINme"}] }
FrameLines ==
    FrameLinesOf("chan1") \cup
    { [kind |-> "353", channel |-> "chan2", names |-> {"alice"}],
      [kind |-> "366", channel |-> "chan2", names |-> {}] }

\* _user_lists while the batch waits, with or without names from get_channel
FramesInit ==
    /\ \E chatters \in {{}, {"zed"}} :
          user_lists = [c \in FrameChannels |->
                           [ViewerListFetchData(0) EXCEPT !.user_names = chatters]]
    /\ lbatch = <<"chan1", "chan2">>
    /\ ltask = [i \in 1..2 |-> [pc |-> "wait", exc |-> "none"]]
    /\ lcall = [pc |-> "running", exc |-> "none", start_time |-> 0, result |-> {}]
    /\ ljoined = FrameChannels
    /\ lparts = <<>>
    /\ lframes = 0
    /\ lframe = <<>>
    /\ lbefore = <<>>
    /\ now = 1

\* event_raw_data(data), for a frame of up to MaxFrameLines lines
ReceiveFrame(part) ==
    /\ lframes = 0
    /\ lframes' = 1
    /\ \E n \in 1..MaxFrameLines : \E data \in [1..n -> FrameLines] :
          LET r == event_raw_data(user_lists, data, part, now)
          IN /\ r.parted = <<>> => part = "ok"
             /\ lframe' = data
             /\ user_lists' = r.lists
             /\ lparts' = lparts \o r.parted
    /\ lbefore' = user_lists
    /\ UNCHANGED <<fother, now, lbatch, ltask, lcall, ljoined>>

FramesNext ==
    \E part \in {"ok", "raise"} : ReceiveFrame(part)

(***************************************************************************)
(* Specifications.                                                         *)
(***************************************************************************)
QueueIdle ==
    /\ qpc = <<>> /\ qdata = <<>> /\ qret = <<>> /\ got = <<>>
    /\ accepted = <<>> /\ enqCalls = 0 /\ active = {}

ScanIdle ==
    /\ last_update_timemarker = 0 /\ upd = UpdIdle("none")
    /\ refills = <<>> /\ updStart = PyNone
    /\ wpc = <<>> /\ wtarget = <<>> /\ produced = 0 /\ joins = <<>>
    /\ working = <<>> /\ stopAsked = {}
    /\ benchOrder = <<>> /\ observed = <<>> /\ viewer_sightings = <<>>

CacheIdle ==
    /\ cpc = <<>> /\ cret = <<>> /\ incRets = <<>> /\ onlyIncr = <<>>
    /\ cleared = <<>> /\ cacheCalls = 0 /\ shard_down = {}

StoreIdle ==
    /\ redis = <<>> /\ handles = <<>> /\ locks = <<>>

SecretsIdle ==
    /\ secrets_store = PyNone /\ expiration_time = PyNone /\ secrets_table = <<>>
    /\ secrets_lock = "free" /\ spc = <<>> /\ sret = <<>> /\ refreshCalls = 0
    /\ storedExpiry = PyNone /\ lastIngest = PyNone /\ secCalls = 0

ListenerIdle ==
    /\ user_lists = <<>> /\ lbatch = <<>> /\ ltask = <<>> /\ lcall = [pc |-> "idle"]
    /\ ljoined = {} /\ lparts = <<>> /\ lframes = 0
    /\ lframe = <<>> /\ lbefore = <<>>

QueueStart ==
    QInit /\ ScanIdle /\ CacheIdle /\ SecretsIdle /\ ListenerIdle /\ now = 0 /\ cache = <<>>

SpecQueue == QueueStart /\ [][QNext]_vars

ScanStart ==
    ScanInit /\ QueueIdle /\ CacheIdle /\ SecretsIdle /\ ListenerIdle

SpecScan == ScanStart /\ [][ScanNext]_vars

CacheStart ==
    CacheInit /\ StoreIdle /\ QueueIdle /\ ScanIdle /\ SecretsIdle /\ ListenerIdle

SpecCache == CacheStart /\ [][CacheNext]_vars

SecretsStart ==
    SecretsInit /\ StoreIdle /\ QueueIdle /\ ScanIdle /\ CacheIdle /\ ListenerIdle
    /\ cache = <<>>

SpecSecrets == SecretsStart /\ [][SecretsNext]_vars

ListenerStart ==
    ListenerInit /\ StoreIdle /\ QueueIdle /\ ScanIdle /\ CacheIdle /\ SecretsIdle
    /\ cache = <<>>

SpecListener == ListenerStart /\ [][ListenerNext]_vars

FramesStart ==
    FramesInit /\ StoreIdle /\ QueueIdle /\ ScanIdle /\ CacheIdle /\ SecretsIdle
    /\ cache = <<>>

SpecFrames == FramesStart /\ [][FramesNext]_vars

WorkerStart ==
    /\ WorkerInit /\ QueueIdle /\ CacheIdle /\ SecretsIdle /\ now = 0 /\ cache = <<>>
    /\ last_update_timemarker = 0 /\ upd = UpdIdle("none")
    /\ refills = <<>> /\ updStart = PyNone /\ joins = <<>>
    /\ benchOrder = <<>> /\ observed = <<>> /\ viewer_sightings = <<>>
    /\ lbatch = <<>> /\ ltask = <<>> /\ lcall = [pc |-> "idle"]
    /\ ljoined = {} /\ lparts = <<>> /\ lframes = 0
    /\ lframe = <<>> /\ lbefore = <<>>

SpecWorker == WorkerStart /\ [][WorkerNext]_vars

\* the event loop runs a task that can run; nothing makes Twitch send a
\* frame, the conductor put an item or anyone call set_state
SpecWorkerFair ==
    WorkerStart /\ [][WorkerNext]_vars /\ \A w \in Workers : WF_vars(LoopStep(w))

ShardsStart ==
    ShardsInit /\ StoreIdle /\ QueueIdle /\ ScanIdle /\ SecretsIdle /\ ListenerIdle

SpecShards == ShardsStart /\ [][ShardsNext]_vars

OpsStart ==
    OpsInit /\ ScanIdle /\ CacheIdle /\ SecretsIdle /\ ListenerIdle /\ now = 0 /\ cache = <<>>

SpecOps == OpsStart /\ [][OpsNext]_vars

(***************************************************************************)
(* Properties of the queue.                                                *)
(***************************************************************************)
Count(seq, x) == Cardinality({i \in DOMAIN seq : seq[i] = x})
QList == redis[QKey]
QRaws(t) == [i \in DOMAIN got[t] |-> got[t][i][1].s]
\* the text a payload is expected to have in the queue
ExpectedRaw(p) == IF p.t = "dict" THEN JsonDumps(p.d) ELSE p.s
QAcceptedRaws == [i \in DOMAIN accepted |-> ExpectedRaw(accepted[i])]
QStrings == {ExpectedRaw(p) : p \in QPayloads}

C3_EachItemOnce ==
    \A d \in QStrings :
        Count(QAcceptedRaws, d)
            = Count(QList, d) + Count(QRaws("c1"), d) + Count(QRaws("c2"), d)

\* C3 witness: two consumers passed the size check for the last item; one
\* received it and the other got the empty result.
C3_Witness ==
    /\ Len(accepted) = 1
    /\ QList = <<>>
    /\ qret["c1"] = "item" /\ Len(got["c1"]) = 1
    /\ qret["c2"] = "empty_at_pop" /\ got["c2"] = <<>>

\* C4: with one producer and one consumer, the raw values returned so far
\* followed by the queue's content are the accepted payloads' texts in
\* enqueue order; hence once all were returned the size is 0.
C4_FifoRoundTrip ==
    active = {"p1", "c1"} => QRaws("c1") \o QList = QAcceptedRaws

\* C4 witness: a string and a dict payload were enqueued and both came back,
\* the queue being empty afterwards.
C4_Witness ==
    /\ active = {"p1", "c1"}
    /\ accepted = <<PyStr("item1"), PyDict(<< <<"user_login", "bob">> >>)>>
    /\ Len(got["c1"]) = 2
    /\ got["c1"][2] = <<PyStr("{\"user_login\": \"bob\"}"),
                        PyDict(<< <<"user_login", "bob">> >>)>>
    /\ queue_size(QList) = 0

(***************************************************************************)
(* Properties of the scan.                                                 *)
(***************************************************************************)
JoinsInWindow(t) ==
    Cardinality({i \in DOMAIN joins :
                    joins[i] >= t /\ joins[i] < t + TWITCH_CHANNEL_JOIN_LIMIT_PER_SECONDS})

\* C1: in every window of TWITCH_CHANNEL_JOIN_LIMIT_PER_SECONDS seconds the
\* workers are handed at most TWITCH_CHANNEL_JOIN_LIMIT_COUNT items.
C1_JoinsPerWindow ==
    \A t \in 0..(MaxTime + 1) : JoinsInWindow(t) <= TWITCH_CHANNEL_JOIN_LIMIT_COUNT

\* C5: the workbench receives the items in the order in which they entered
\* the pending queue.
C5_UpdateKeepsFifo ==
    \A i, j \in DOMAIN benchOrder :
        i < j => ChanIndex(benchOrder[i]) < ChanIndex(benchOrder[j])

TimesSeen(l) == IF EXISTS(cache[l]) THEN cache[l].times_seen ELSE 0
SightingRows(l) == Count(viewer_sightings, l)
ScanEnded ==
    /\ \A w \in Workers : wpc[w] = "returned"
    /\ upd.pc = "idle"

\* C7: at the end of a scan the cached times_seen of every login equals the
\* number of ViewerSighting rows written for it, one row and one increment
\* for each fetch result that listed the login.
C7_CacheMatchesSightings ==
    ScanEnded =>
        \A l \in Logins : /\ TimesSeen(l) = SightingRows(l)
                          /\ SightingRows(l) = observed[l]

(***************************************************************************)
(* Properties of the sightings cache.                                      *)
(***************************************************************************)
\* C6: for a login that only increment_times_seen has written, after n
\* executed increments times_seen = n and the calls returned 1..n, each once.
C6_NoLostIncrement ==
    \A l \in Logins :
        onlyIncr[l] =>
            /\ TimesSeen(l) = Len(incRets[l])
            /\ \A k \in 1..Len(incRets[l]) : Count(incRets[l], k) = 1

\* C6 witness: two workers had increments of the same login in flight at
\* once, both have returned, and a third one is in flight.
C6_Witness ==
    /\ onlyIncr["alice"]
    /\ Len(incRets["alice"]) = 2
    /\ cret["w1"] = PyInt(1) /\ cret["w2"] = PyInt(2)
    /\ cpc["w1"].pc = "increment_times_seen" /\ cpc["w1"].username = "alice"

(***************************************************************************)
(* Properties of the secrets manager.                                      *)
(***************************************************************************)
\* C9: after process_token_update_from_servlet(payload) with a valid payload,
\* on an empty store or over an earlier credential, a get_access_token() call
\* made before that token expires returns the payload's access_token.
C9_IngestThenAccess ==
    \A t \in STasks :
        (/\ sret[t].op = "get_access_token"
         /\ sret[t].asked # PyNone
         /\ sret[t].at < sret[t].asked.until)
        => /\ sret[t].kind = "return"
           /\ sret[t].value = sret[t].asked.token

\* C10: a get_access_token() call made once the expiry computed when the
\* credential was stored has passed sends exactly one request to the refresh
\* endpoint and returns the refreshed token; a call made before the expiry
\* sends none.
C10_RefreshOnExpiry ==
    \A t \in STasks :
        sret[t].op = "get_access_token" =>
            IF sret[t].expired
            THEN /\ sret[t].refreshes = 1
                 /\ sret[t].kind = "return"
                 /\ sret[t].value \in {r.access_token : r \in {a \in RefreshAnswers : a.kind = "tokens"}}
            ELSE sret[t].refreshes = 0

C12_AtMostOneRow == Len(secrets_table) <= 1

\* C12 witness: a row is stored and both a later token update and a refresh
\* with new tokens have gone through their upsert.
C12_Witness ==
    /\ Len(secrets_table) = 1
    /\ \E t \in STasks : /\ sret[t].op = "process_token_update_from_servlet"
                         /\ sret[t].kind = "raise" /\ sret[t].answered
    /\ \E t \in STasks : sret[t].op = "force_tokens_refresh" /\ sret[t].answered

\* the task inside the manager's critical section
SecretsInside == {t \in STasks : spc[t].pc # "idle"}

\* C13: at most one public operation is inside the critical section, it is
\* the lock holder, and whenever the lock is free the credential in memory
\* is the stored row, so no caller reads a half-made update.
C13_OneInside ==
    /\ Cardinality(SecretsInside) <= 1
    /\ \A t \in SecretsInside : secrets_lock = t
    /\ (secrets_lock = "free" /\ secrets_store # PyNone) =>
           \E i \in DOMAIN secrets_table :
               secrets_table[i].access_token = secrets_store.access_token

\* C13 witness: one caller is half-way through an update (the store holds a
\* token that the table does not) while the other caller, which read the
\* stored token before, is outside.
C13_Witness ==
    /\ spc["a"].pc = "ptu_upsert"
    /\ Len(secrets_table) = 1
    /\ secrets_store.access_token # secrets_table[1].access_token
    /\ sret["b"].op = "get_access_token" /\ sret["b"].kind = "return"
    /\ sret["b"].value = secrets_table[1].access_token

(***************************************************************************)
(* Properties of the channel listener.                                     *)
(***************************************************************************)
\* C14: whatever the case of the names of the batch, no record is looked up
\* under a key the map does not have, the call does not fail on a key, and
\* the keys of the returned map are the lowercase forms of the input names.
C14_LowercaseKeys ==
    /\ \A i \in DOMAIN ltask : ltask[i].exc # "KeyError"
    /\ lcall.pc = "raised" => lcall.exc # "KeyError"
    /\ lcall.pc = "returned" =>
           lcall.result = {Lower(lbatch[i]) : i \in DOMAIN lbatch}

\* C15: the task of every channel of the batch ends with the channel's
\* record marked done (by a 366, by a failed JOIN or by the overall
\* timeout), and a record that timed out carries its end time.
C15_WaitEndsDone ==
    \A i \in DOMAIN ltask :
        ltask[i].pc = "ended" =>
            LET r == user_lists[Lower(lbatch[i])]
            IN /\ r.done
               /\ r.error = "VLFetcherOvertimeError" => r.end_time # PyNone

\* C16: when the JOIN of a channel fails with an IRC-library error the
\* channel's record has error set and done = true, and the fetch call does
\* not fail: the batch goes on and the map is returned.
C16_JoinFailureKept ==
    \A i \in DOMAIN ltask :
        ltask[i].exc = "VLFetcherChannelJoinError" =>
            /\ user_lists[Lower(lbatch[i])].done
            /\ user_lists[Lower(lbatch[i])].error # "none"
            /\ lcall.pc # "raised"

(***************************************************************************)
(* Further properties of the queue.                                        *)
(***************************************************************************)
\* C17: an enqueue whose script runs on a queue holding size_limit items
\* raises RedisSharedQueueFull and leaves the list as it was, with
\* remaining_space() = 0 before and after; no other enqueue raises it.
C17_FullIsRefused ==
    [][\A t \in QProducers :
          (qpc[t] = "enqueue_script" /\ qpc'[t] = "idle") =>
              LET h == handles[QHandleOf(t)]
                  full == h.size_limit.t = "int" /\ Len(redis[h.key]) = h.size_limit.n
              IN /\ full => /\ qret'[t] = "RedisSharedQueueFull"
                            /\ redis' = redis
                            /\ remaining_space(h, redis[h.key]) = PyInt(0)
                            /\ remaining_space(h, redis'[h.key]) = PyInt(0)
                 /\ qret'[t] = "RedisSharedQueueFull" => full]_vars

\* C17 witness: the first producer was refused on the full queue.
C17_Witness ==
    /\ handles["h1"].size_limit.t = "int"
    /\ Len(QList) = QLimit
    /\ qret["p1"] = "RedisSharedQueueFull"
    /\ Len(accepted) = QLimit

(***************************************************************************)
(* Further properties of the sightings cache.                              *)
(***************************************************************************)
\* C18: set_enriched(login, v) / set_aggregated(login, v) on a login that has
\* an entry sets the flag to v and returns true; on a login without an entry
\* it returns false and creates none: get_user_data still returns nothing.
C18_FlagOnlyOnEntry ==
    [][\A t \in CTasks, v \in BOOLEAN :
          (/\ cpc[t].pc \in {"enriched", "aggregated"}
           /\ cpc[t].args = JsonBool(v)
           /\ cpc'[t].pc = "idle") =>
              LET l == cpc[t].username
                  after == get_user_data(cache'[l], l, now)
              IN IF get_user_data(cache[l], l, now) # PyNone
                 THEN /\ cret'[t] = [t |-> "bool", b |-> TRUE]
                      /\ after # PyNone
                      /\ after[cpc[t].pc] = v
                 ELSE /\ cret'[t] = [t |-> "bool", b |-> FALSE]
                      /\ after = PyNone]_vars

\* one call answered false for a login that still has no entry, one answered
\* true for a login whose flag is now set
C18_Witness ==
    /\ cret["w1"] = [t |-> "bool", b |-> FALSE]
    /\ \E l \in Logins : cpc["w1"] = CIdle /\ ~EXISTS(cache[l])
    /\ cret["w2"] = [t |-> "bool", b |-> TRUE]
    /\ \E l \in Logins : get_user_data(cache[l], l, now) # PyNone
                          /\ get_user_data(cache[l], l, now).enriched

\* C19: get_user_data(r.username) right after set_user_data(r): the login
\* had no entry -> r's times_seen, flags and timestamp; it had an entry with
\* count c -> times_seen c + 1 with r's flags and timestamp.
C19_UpsertThenGet ==
    [][\A t \in CTasks, l \in Logins :
          \A r \in UNION { CSightings(l, tm) : tm \in 0..MaxCacheTime } :
              (/\ cpc[t].pc = "set_user_data"
               /\ cpc[t].username = l
               /\ cpc[t].args = SetUserDataArgs(r)
               /\ cpc'[t].pc = "idle") =>
                  LET before == get_user_data(cache[l], l, now)
                      after == get_user_data(cache'[l], l, now)
                  IN /\ after # PyNone
                     /\ after.username = r.username
                     /\ after.enriched = r.enriched
                     /\ after.aggregated = r.aggregated
                     /\ after.timestamp = r.timestamp
                     /\ after.times_seen = IF before = PyNone THEN r.times_seen
                                           ELSE before.times_seen + 1]_vars

\* a get_user_data that followed two set_user_data calls on one login
C19_Witness ==
    /\ cret["w1"] # PyNone
    /\ cret["w1"].t = "CachedViewerSighting"
    /\ cret["w1"].times_seen = 4
    /\ ~onlyIncr[cret["w1"].username]
    /\ incRets[cret["w1"].username] = <<>>

\* C20: when clear_cache() completes, get_user_data(login) returns nothing
\* for every login that had an entry when the call was made.
C20_ClearRemovesAll ==
    [][\A t \in CTasks :
          (cpc[t].pc = "clear_cache" /\ cpc'[t].pc = "idle") =>
              \A l \in cpc[t].before :
                  get_user_data(cache'[l], l, now) = PyNone]_vars

\* a completed clear_cache() that was called with two entries in the cache
C20_Witness ==
    /\ cpc["w1"] = CIdle
    /\ Cardinality(cleared["w1"]) >= 2
    /\ \A l \in cleared["w1"] : incRets[l] # <<>> /\ ~EXISTS(cache[l])

(***************************************************************************)
(* Further properties of the secrets manager.                              *)
(***************************************************************************)
\* C21: POST /store-token answers 200 when the update succeeded, 400 when the
\* payload failed validation and 500 when persisting the credential failed.
C21_StoreTokenStatus ==
    \A t \in STasks :
        sret[t].op = "process_token_update_from_servlet" =>
            store_token(sret[t]) = IF sret[t].kind = "return" THEN 200
                                   ELSE IF ~sret[t].answered THEN 400
                                   ELSE 500

\* C22: get_access_token() with no credential in memory and no row in the
\* table raises TwitchSecretsManagerException and leaves the store empty.
C22_NoCredentialsError ==
    [][\A t \in STasks :
          (/\ spc[t].pc = "fetch_secret"
           /\ spc[t].op = "get_access_token"
           /\ secrets_table = <<>>
           /\ spc'[t].pc = "idle") =>
              /\ sret'[t].kind = "raise"
              /\ sret'[t].value = "TwitchSecretsManagerException"
              /\ secrets_store' = PyNone]_vars

\* C30: a process_token_update_from_servlet that fails, on validation or on
\* persisting, raises and leaves no credential state in memory: the expiry
\* held when the call ends is None.
C30_FailureClearsState ==
    \A t \in STasks :
        (sret[t].op = "process_token_update_from_servlet" /\ sret[t].kind = "raise")
        => sret[t].after = PyNone

(***************************************************************************)
(* Further properties of the workbench.                                    *)
(***************************************************************************)
Min(a, b) == IF a <= b THEN a ELSE b

\* C23: of the two queues the Workbench builds through
\* get_redis_shared_queue, the workbench queue refuses an enqueue with
\* RedisSharedQueueFull exactly when it holds TWITCH_CHANNEL_JOIN_LIMIT_COUNT
\* items, the pending queue accepts an enqueue at every length, and the keys
\* are namespace:name.
C23_QueueCapacities ==
    LET wb == handles["workbench"]
        pd == handles["pending"]
    IN (wb = get_redis_shared_queue(WorkbenchDetails)
        /\ pd = get_redis_shared_queue(PendingDetails)) =>
          /\ wb.key = "queue:workbench"
          /\ pd.key = "queue:pending"
          /\ EnqueueOutcome(wb, redis[wb.key], "x").raised = "RedisSharedQueueFull"
                <=> Len(redis[wb.key]) = TWITCH_CHANNEL_JOIN_LIMIT_COUNT
          /\ EnqueueOutcome(wb, redis[wb.key], "x").raised
                \in {"none", "RedisSharedQueueFull"}
          /\ EnqueueOutcome(pd, redis[pd.key], "x").raised = "none"

C25_OneRefillPerWindow ==
    \A i, j \in DOMAIN refills :
        i < j => refills[j] - refills[i] >= TWITCH_CHANNEL_JOIN_LIMIT_PER_SECONDS

(***************************************************************************)
(* Properties of event_raw_data on one frame.                              *)
(***************************************************************************)
FrameReceived == lframes = 1
\* a line whose only occurrence of a pattern is its own command
PlainLine(sub) == \A w \in sub.names, p \in {"JOIN", "353", "366"} : ~Contains(w, p)
EndOfNamesFor == { lframe[k].channel : k \in {i \in DOMAIN lframe : lframe[i].kind = "366"} }
Parted == { lparts[k] : k \in DOMAIN lparts }

\* C26: after a frame of JOIN, 353 and 366 lines, every channel the frame
\* has a 366 for is done with its end time and duration set and has been sent
\* a PART, and no other channel is done or parted.
C26_EveryEndOfNamesParts ==
    (FrameReceived /\ \A k \in DOMAIN lframe : PlainLine(lframe[k])) =>
        \A c \in FrameChannels :
            IF c \in EndOfNamesFor
            THEN /\ user_lists[c].done
                 /\ user_lists[c].end_time # PyNone
                 /\ user_lists[c].time_elapsed # PyNone
                 /\ c \in Parted
            ELSE ~user_lists[c].done /\ c \notin Parted

\* the frame is two or more 353 lines of channel c followed by its 366
NamesThenEnd(c) ==
    /\ FrameReceived
    /\ Len(lframe) >= 3
    /\ \A k \in DOMAIN lframe :
          /\ lframe[k].channel = c
          /\ lframe[k].kind = IF k = Len(lframe) THEN "366" ELSE "353"

\* C27: after a frame of several 353 lines of a channel and its 366, the
\* channel's names are the ones it had plus those of all the 353 lines, and
\* exactly one PART was sent, for that channel.
C27_CombinedFrame ==
    \A c \in FrameChannels :
        NamesThenEnd(c) =>
            /\ user_lists[c].user_names =
                  lbefore[c].user_names \cup
                  UNION { lframe[k].names : k \in 1..(Len(lframe) - 1) }
            /\ lparts = <<c>>

\* two 353 lines with different names, on a list that had a name already
C27_Witness ==
    /\ NamesThenEnd("chan1")
    /\ lframe[1].names = {"alice"}
    /\ lframe[2].names = {"carol", "x353"}
    /\ lbefore["chan1"].user_names = {"zed"}
    /\ user_lists["chan1"].user_names = {"zed", "alice", "carol", "x353"}
    /\ user_lists["chan1"].done

\* C28: a frame of PRIVMSG lines changes no record and sends no PART, and
\* a frame of 353 lines marks no channel done, whatever their words are.
C28_OtherLinesIgnored ==
    FrameReceived =>
        /\ (\A k \in DOMAIN lframe : lframe[k].kind = "PRIVMSG") =>
               user_lists = lbefore /\ lparts = <<>>
        /\ (\A k \in DOMAIN lframe : lframe[k].kind = "353") =>
               \A c \in FrameChannels : ~user_lists[c].done

(***************************************************************************)
(* The counter of the sightings cache.                                     *)
(***************************************************************************)
HashFields == {"times_seen", "enriched", "aggregated", "timestamp"}
SameField(l, f) ==
    /\ (f \in cache'[l].has) = (f \in cache[l].has)
    /\ cache'[l][f] = cache[l][f]

\* C29: a step that changes the times_seen of an entry is the script of
\* increment_times_seen, set_user_data or clear_cache, and the script of
\* set_enriched / set_aggregated changes no field but its own flag.
C29_FlagsLeaveCounter ==
    [][/\ \A l \in Logins :
            ~SameField(l, "times_seen") =>
                \E t \in CTasks :
                    /\ cpc[t].pc \in {"increment_times_seen", "set_user_data", "clear_cache"}
                    /\ cpc'[t] # cpc[t]
       /\ \A t \in CTasks :
            (cpc[t].pc \in {"enriched", "aggregated"} /\ cpc'[t].pc = "idle") =>
                \A l \in Logins, f \in HashFields :
                    (l # cpc[t].username \/ f # cpc[t].pc) => SameField(l, f)]_vars

\* a flag was set on an entry that two increments had counted
C29_Witness ==
    /\ onlyIncr["alice"]
    /\ cache["alice"].times_seen = 2
    /\ "enriched" \in cache["alice"].has
    /\ cache["alice"].enriched = "true"
    /\ cret["w2"] = [t |-> "bool", b |-> TRUE]

(***************************************************************************)
(* Failures of the refresh.                                                *)
(***************************************************************************)
\* C31: a force_tokens_refresh() that fails raises
\* TwitchSecretsManagerException and leaves no credential state in memory.
C31_FailedRefreshInvalidates ==
    \A t \in STasks :
        (sret[t].op = "force_tokens_refresh" /\ sret[t].kind = "raise")
        => /\ sret[t].value = "TwitchSecretsManagerException"
           /\ sret[t].after = PyNone

C32_StoreFailureIsQueueError ==
    (qret.op # "none" /\ qret.failed) => qret.raised = "RedisSharedQueueError"

\* C38: a clear() that went through leaves its own queue empty and every
\* other queue as it was.
C38_ClearOnlyItsQueue ==
    (qret.op = "clear" /\ ~qret.failed)
    => /\ redis[handles[qret.name].key] = <<>>
       /\ \A k \in DOMAIN redis :
             k # handles[qret.name].key => redis[k] = qret.before[k]

\* C33: with one connection of the cache failing, a call for a login of
\* another connection goes through, and clear_cache() leaves no entry of a
\* login of another connection.
C33_HealthyShardsUnaffected ==
    /\ (cret.op \in {"increment_times_seen", "set_enriched"}
        /\ get_shard(cret.username) \notin cret.down) => cret.raised = "none"
    /\ cret.op = "clear_cache"
       => \A l \in ShardLogins : get_shard(l) \notin cret.down => ~EXISTS(cache[l])

(***************************************************************************)
(* The worker's loop.                                                      *)
(***************************************************************************)
\* C34: a worker leaves its loop only after set_state(False) was called on
\* it; an empty dequeue keeps it in the loop.
C34_LeavesOnlyOnShutdown ==
    \A w \in Workers : wpc[w] \in {"close", "returned"} => w \in stopAsked

\* C35: a worker that is asked to stop while a channel is in flight gets to
\* the end of processing_loop, its listener closed.
C35_StopEndsTheLoop ==
    \A w \in Workers :
        (w \in stopAsked /\ wpc[w] \in {"join", "wait"}) ~> (wpc[w] = "returned")

(***************************************************************************)
(* The items update() takes out of the pending queue.                      *)
(***************************************************************************)
\* the channels the pending queue has accepted from the producer
EnteredPending ==
    { Chan(i) : i \in { j \in 1..produced :
        EnqueueOutcome(handles["producer"], <<>>, EnqueueData(PyStr(Chan(j)))).raised
            = "none" } }

\* C37: between two update() calls every channel that has left the pending
\* queue was accepted by the workbench queue (it is there, or a worker has
\* taken it from there).
C37_UpdateLosesNothing ==
    upd.pc = "idle"
    => \A c \in EnteredPending :
          \/ \E i \in DOMAIN PendingList : PendingList[i] = c
          \/ \E i \in DOMAIN benchOrder : benchOrder[i] = c

(***************************************************************************)
(* The records a fetch call has returned.                                  *)
(***************************************************************************)
\* C39: the records of the map fetch_viewer_list_for_channels returned stay
\* as they were returned.  The map is `self._user_lists.copy()`: until the
\* next call rebuilds _user_lists, the record the caller holds for a channel
\* is the object _user_lists holds for it.
C39_ReturnedRecordsAreFinal ==
    lcall.pc = "returned"
    => \A c \in DOMAIN lcall.records : user_lists[c] = lcall.records[c]
====
